---- MODULE Spec2Model ----
(***************************************************************************)
(* RefundExecutor of @zauthx402/sdk (refund.ts): the reconnecting          *)
(* WebSocket client that receives `refund_required` instructions, checks   *)
(* them against the local policy, executes them on chain and reports the   *)
(* outcome.  Every action is one run-to-completion segment of the          *)
(* JavaScript event loop: an event handler, or the continuation of an      *)
(* async method after one of its awaits.                                   *)
(***************************************************************************)
EXTENDS Bags, FiniteSets, Integers, Sequences, TLC

(***************************************************************************)
(* Exploration bounds.                                                     *)
(***************************************************************************)
MaxDeliveries == 3      \* refund_required messages pushed (concurrency scenario)
ReportDeliveries == 2   \* refund_required messages pushed (reporting scenario)
ReportAttempts == 1     \* consecutive reconnects explored (reporting scenario)
MaxAttempts == 7        \* consecutive reconnects explored (reconnect scenario)
MaxDay == 2             \* calendar days that pass after construction

(***************************************************************************)
(* Program constants and the configuration under which the executor runs.  *)
(***************************************************************************)
baseReconnectDelay == 1000
persistentRetryDelay == 60000
fastPhaseAttempts == 5

\* ResolvedRefundConfig; USD amounts are held in thousandths of a dollar so
\* that Math.floor(usd * 100) is a real rounding.
maxRefundUsd == 1000        \* 1.00 USD, the default
dailyCapUsd == 1005         \* 1.005 USD -> 100 cents
monthlyCapUsd == 1205       \* 1.205 USD -> 120 cents
\* The keys of the refund configuration the application passes in (README,
\* "both keys"), and what resolveConfig makes of them: it copies signer and
\* privateKey and has no solanaPrivateKey field.
RefundConfig == [privateKey |-> TRUE, solanaPrivateKey |-> TRUE]
ResolveConfig(c) == [privateKey |-> c.privateKey]
\* this.config.signer || this.config.privateKey
HasSigner == ResolveConfig(RefundConfig).privateKey
\* this.config.solanaPrivateKey
HasSolanaKey ==
  LET r == ResolveConfig(RefundConfig)
  IN "solanaPrivateKey" \in DOMAIN r /\ r.solanaPrivateKey
HasOnRefund == TRUE
HasOnRefundError == TRUE

\* URLs and patterns are sequences of tokens: the origin, then one token per
\* path segment; the token "*" of a pattern is the wildcard.
Origin == "https://api.example.com"
UrlData == <<Origin, "/api", "/data">>
UrlBeta == <<Origin, "/api", "/beta-endpoint">>
UrlReport == <<Origin, "/api", "/expensive-report">>
UrlInternal == <<Origin, "/internal", "/stats">>

\* config.endpoints: pattern -> override, in declaration order.
Endpoints ==
  << [pattern |-> <<"/api", "/beta-endpoint">>, enabled |-> FALSE, hasMax |-> FALSE, maxRefundUsd |-> 0],
     [pattern |-> <<"/api", "/expensive-report">>, enabled |-> TRUE, hasMax |-> TRUE, maxRefundUsd |-> 5000],
     [pattern |-> <<"*", "/internal", "*">>, enabled |-> FALSE, hasMax |-> FALSE, maxRefundUsd |-> 0] >>

\* Network identifiers, as character sequences (startsWith is computed on them).
NetBase == <<"b", "a", "s", "e">>
NetSolana == <<"s", "o", "l", "a", "n", "a">>
NetPolygon == <<"p", "o", "l", "y", "g", "o", "n">>
NetEip155Base == <<"e", "i", "p", "1", "5", "5", ":", "8", "4", "5", "3">>
NetBaseSepolia == <<"b", "a", "s", "e", "-", "s", "e", "p", "o", "l", "i", "a">>
NetSolanaDevnet == <<"s", "o", "l", "a", "n", "a", "-", "d", "e", "v", "n", "e", "t">>
NetSolanaTestnet == <<"s", "o", "l", "a", "n", "a", "-", "t", "e", "s", "t", "n", "e", "t">>

\* The PendingRefund instructions the remote authority may push.
Ids == 1..12
Refund(i) ==
  CASE i = 1 -> [id |-> 1, url |-> UrlData, network |-> NetBase, amountCents |-> 60]
    [] i = 2 -> [id |-> 2, url |-> UrlData, network |-> NetEip155Base, amountCents |-> 60]
    [] i = 3 -> [id |-> 3, url |-> UrlData, network |-> NetPolygon, amountCents |-> 60]
    [] i = 4 -> [id |-> 4, url |-> UrlInternal, network |-> NetBase, amountCents |-> 250]
    [] i = 5 -> [id |-> 5, url |-> UrlData, network |-> NetSolana, amountCents |-> 60]
    [] i = 6 -> [id |-> 6, url |-> UrlReport, network |-> NetBase, amountCents |-> 250]
    [] i = 7 -> [id |-> 7, url |-> UrlBeta, network |-> NetBase, amountCents |-> 60]
    [] i = 8 -> [id |-> 8, url |-> UrlData, network |-> NetBaseSepolia, amountCents |-> 60]
    [] i = 9 -> [id |-> 9, url |-> UrlData, network |-> NetSolanaDevnet, amountCents |-> 60]
    [] i = 10 -> [id |-> 10, url |-> UrlData, network |-> NetSolanaTestnet, amountCents |-> 60]
    [] i = 11 -> [id |-> 11, url |-> UrlData, network |-> NetBase, amountCents |-> 250]
    [] OTHER -> [id |-> 12, url |-> UrlData, network |-> NetBase, amountCents |-> 70]

\* refund.amountUsd, in thousandths of a dollar
AmountUsd(r) == r.amountCents * 10

\* Math.floor(usd * 100)
FloorCents(usdMilli) == (usdMilli * 100) \div 1000

\* new Date().toISOString().slice(0, 7) of day d: two days to a month
MonthOf(d) == d \div 2

VARIABLES
  started,            \* start() has been called
  wsAvailable,        \* getWebSocket() resolves to an implementation
  connectPending,     \* connect() calls suspended at `await getWebSocket()`
  ws,                 \* this.ws: "null" or the readyState of the socket it refers to
  closing,            \* sockets dropped by stop() whose close event is still to come
  leaked,             \* sockets still connecting/open that this.ws no longer refers to
  closeCode,          \* code of the last ws.close() call, 0 if none
  reconnectTimer,     \* this.reconnectTimer: "null", "live" (pending), "stale" (fired)
  timersPending,      \* reconnect timeouts scheduled and not fired or cleared
  reconnectAttempts,
  lastDelay,          \* delay of the last setTimeout in scheduleReconnect
  isShuttingDown,
  pingInterval,       \* this.pingInterval is set
  pingTimers,         \* heartbeat intervals scheduled and not cleared
  today,              \* the wall-clock date
  todayRefundedCents,
  monthRefundedCents,
  lastCapResetDate,
  lastCapResetMonth,
  processedRefundIds,
  tasks,              \* bag of processSingleRefund activations suspended at an await
  delivered,          \* refund_required messages delivered so far
  hist,               \* per refund id: what the remote and the chain have seen
  last,               \* summary of the delivery that finished last
  budget,             \* exploration scenario: [deliveries, attempts]
  arg,                \* the arguments of a call of one of the pure functions
  ret                 \* what the call returned, Idle before it

conn == <<started, wsAvailable, connectPending, ws, closing, leaked, closeCode,
          reconnectTimer, timersPending, reconnectAttempts, lastDelay,
          isShuttingDown, pingInterval, pingTimers>>
caps == <<todayRefundedCents, monthRefundedCents, lastCapResetDate, lastCapResetMonth>>
refs == <<processedRefundIds, tasks, delivered, hist, last>>
pure == <<arg, ret>>
vars == <<conn, today, caps, refs, budget, pure>>

\* The scenarios explored: how many instructions the remote pushes, which
\* ones, and how many consecutive reconnects the network forces.
RoutingDeliveries == 2
PolicyDeliveries == 2
RaceScenario == [deliveries |-> MaxDeliveries, attempts |-> 0, ids |-> {1, 2}]
ReportScenario == [deliveries |-> ReportDeliveries, attempts |-> ReportAttempts, ids |-> {1, 3, 4, 5, 6}]
ReconnectScenario == [deliveries |-> 1, attempts |-> MaxAttempts, ids |-> {1}]
RoutingScenario == [deliveries |-> RoutingDeliveries, attempts |-> 0, ids |-> {6, 7, 8, 9, 10}]
PolicyScenario == [deliveries |-> PolicyDeliveries, attempts |-> 0, ids |-> {1, 4, 11, 12}]
Scenarios == {RaceScenario, ReportScenario, ReconnectScenario, RoutingScenario, PolicyScenario}

NoHist == [dispatched |-> 0, chainCalls |-> 0, transfers |-> 0,
           execWire |-> FALSE, confWire |-> FALSE,
           rejPolicyWire |-> FALSE, rejExecWire |-> FALSE,
           firstConnection |-> FALSE]
NoLast == [id |-> 0, res |-> "none", rejWire |-> FALSE, confWire |-> FALSE,
           okCalls |-> 0, errCalls |-> 0, errFlags |-> <<>>, added |-> FALSE,
           rejected |-> <<>>, reconnected |-> FALSE]

Idle == [fn |-> "none"]

\* The executor after construction.
ExecutorInit ==
  /\ started = FALSE
  /\ wsAvailable \in BOOLEAN
  /\ connectPending = 0
  /\ ws = "null"
  /\ closing = 0
  /\ leaked = 0
  /\ closeCode = 0
  /\ reconnectTimer = "null"
  /\ timersPending = 0
  /\ reconnectAttempts = 0
  /\ lastDelay = 0
  /\ isShuttingDown = FALSE
  /\ pingInterval = FALSE
  /\ pingTimers = 0
  /\ today = 0
  /\ todayRefundedCents = 0
  /\ monthRefundedCents = 0
  /\ lastCapResetDate = 0
  /\ lastCapResetMonth = MonthOf(0)
  /\ processedRefundIds = {}
  /\ tasks = EmptyBag
  /\ delivered = 0
  /\ hist = [i \in Ids |-> NoHist]
  /\ last = NoLast
  /\ budget \in Scenarios

Init ==
  /\ ExecutorInit
  /\ arg = Idle
  /\ ret = Idle

(***************************************************************************)
(* Connection management                                                   *)
(***************************************************************************)
RECURSIVE Pow2(_)
Pow2(n) == IF n = 0 THEN 1 ELSE 2 * Pow2(n - 1)

\* scheduleReconnect() that stops retrying once the fast phase is used up
ScheduleReconnect_GivesUp ==
  IF isShuttingDown \/ reconnectAttempts >= fastPhaseAttempts
  THEN UNCHANGED <<reconnectAttempts, reconnectTimer, timersPending, lastDelay>>
  ELSE /\ lastDelay' = baseReconnectDelay * Pow2(reconnectAttempts)
       /\ reconnectAttempts' = reconnectAttempts + 1
       /\ reconnectTimer' = "live"
       /\ timersPending' = timersPending + 1

\* scheduleReconnect() whose fast phase is one attempt too long
ScheduleReconnect_OffByOne ==
  IF isShuttingDown
  THEN UNCHANGED <<reconnectAttempts, reconnectTimer, timersPending, lastDelay>>
  ELSE /\ lastDelay' = IF reconnectAttempts <= fastPhaseAttempts
                       THEN baseReconnectDelay * Pow2(reconnectAttempts)
                       ELSE persistentRetryDelay
       /\ reconnectAttempts' = reconnectAttempts + 1
       /\ reconnectTimer' = "live"
       /\ timersPending' = timersPending + 1

\* scheduleReconnect()
ScheduleReconnect ==
  IF isShuttingDown
  THEN UNCHANGED <<reconnectAttempts, reconnectTimer, timersPending, lastDelay>>
  ELSE /\ lastDelay' = IF reconnectAttempts < fastPhaseAttempts
                       THEN baseReconnectDelay * Pow2(reconnectAttempts)
                       ELSE persistentRetryDelay
       /\ reconnectAttempts' = reconnectAttempts + 1
       /\ reconnectTimer' = "live"
       /\ timersPending' = timersPending + 1

\* a cleanup() that leaves the heartbeat interval running
Cleanup_KeepsTimer == UNCHANGED <<pingInterval, pingTimers>>

\* cleanup()
Cleanup ==
  IF pingInterval
  THEN /\ pingInterval' = FALSE
       /\ pingTimers' = pingTimers - 1
  ELSE UNCHANGED <<pingInterval, pingTimers>>

\* start(): the middleware calls it once, right after construction
Start ==
  /\ ~started
  /\ started' = TRUE
  /\ connectPending' = IF isShuttingDown THEN connectPending ELSE connectPending + 1
  /\ UNCHANGED <<wsAvailable, ws, closing, leaked, closeCode, reconnectTimer,
                 timersPending, reconnectAttempts, lastDelay, isShuttingDown,
                 pingInterval, pingTimers, today, caps, refs, budget, pure>>

\* A reconnect timer that is periodic (setInterval) instead of one-shot
TimerFire_Periodic ==
  /\ timersPending > 0
  /\ connectPending' = IF isShuttingDown THEN connectPending ELSE connectPending + 1
  /\ UNCHANGED <<started, wsAvailable, ws, closing, leaked, closeCode, reconnectTimer,
                 timersPending, reconnectAttempts, lastDelay, isShuttingDown,
                 pingInterval, pingTimers, today, caps, refs, budget, pure>>

\* The reconnect timeout fires and calls connect(), which runs up to its await.
TimerFire ==
  /\ timersPending > 0
  /\ timersPending' = timersPending - 1
  /\ reconnectTimer' = IF timersPending = 1 /\ reconnectTimer = "live" THEN "stale" ELSE reconnectTimer
  /\ connectPending' = IF isShuttingDown THEN connectPending ELSE connectPending + 1
  /\ UNCHANGED <<started, wsAvailable, ws, closing, leaked, closeCode,
                 reconnectAttempts, lastDelay, isShuttingDown,
                 pingInterval, pingTimers, today, caps, refs, budget, pure>>

\* connect() resumes after `await getWebSocket()` and constructs the socket.
ConnectOpenSocket ==
  /\ connectPending > 0
  /\ wsAvailable
  /\ connectPending' = connectPending - 1
  /\ ws' = "connecting"
  /\ leaked' = IF ws \in {"connecting", "open"} THEN leaked + 1 ELSE leaked
  /\ UNCHANGED <<started, wsAvailable, closing, closeCode, reconnectTimer,
                 timersPending, reconnectAttempts, lastDelay, isShuttingDown,
                 pingInterval, pingTimers, today, caps, refs, budget, pure>>

\* connect() resumes and `new WS(url)` throws: the catch schedules a reconnect.
ConnectThrows ==
  /\ connectPending > 0
  /\ wsAvailable
  /\ isShuttingDown \/ reconnectAttempts < budget.attempts
  /\ connectPending' = connectPending - 1
  /\ ScheduleReconnect
  /\ UNCHANGED <<started, wsAvailable, ws, closing, leaked, closeCode,
                 isShuttingDown, pingInterval, pingTimers, today, caps, refs, budget, pure>>

\* connect() resumes and there is no WebSocket implementation: it returns.
ConnectNoImpl ==
  /\ connectPending > 0
  /\ ~wsAvailable
  /\ connectPending' = connectPending - 1
  /\ UNCHANGED <<started, wsAvailable, ws, closing, leaked, closeCode, reconnectTimer,
                 timersPending, reconnectAttempts, lastDelay, isShuttingDown,
                 pingInterval, pingTimers, today, caps, refs, budget, pure>>

\* ws.onopen
SocketOpen ==
  /\ ws = "connecting"
  /\ ws' = "open"
  /\ reconnectAttempts' = 0
  /\ pingInterval' = TRUE
  /\ pingTimers' = pingTimers + 1
  /\ UNCHANGED <<started, wsAvailable, connectPending, closing, leaked, closeCode,
                 reconnectTimer, timersPending, lastDelay, isShuttingDown,
                 today, caps, refs, budget, pure>>

\* an onclose that starts a new session: the processed ids are forgotten
SocketClose_ForgetsProcessed ==
  /\ ws \in {"connecting", "open"}
  /\ isShuttingDown \/ reconnectAttempts < budget.attempts
  /\ ws' = "closed"
  /\ Cleanup
  /\ ScheduleReconnect
  /\ processedRefundIds' = {}
  /\ UNCHANGED <<started, wsAvailable, connectPending, closing, leaked, closeCode,
                 isShuttingDown, today, caps, tasks, delivered, hist, last, budget, pure>>

\* ws.onclose of the socket this.ws refers to (connect failure or drop)
SocketClose ==
  /\ ws \in {"connecting", "open"}
  /\ isShuttingDown \/ reconnectAttempts < budget.attempts
  /\ ws' = "closed"
  /\ Cleanup
  /\ ScheduleReconnect
  /\ UNCHANGED <<started, wsAvailable, connectPending, closing, leaked, closeCode,
                 isShuttingDown, today, caps, refs, budget, pure>>

\* ws.onclose of a socket that stop() closed and dropped
DetachedClose ==
  /\ closing > 0
  /\ closing' = closing - 1
  /\ Cleanup
  /\ ScheduleReconnect
  /\ UNCHANGED <<started, wsAvailable, connectPending, ws, leaked, closeCode,
                 isShuttingDown, today, caps, refs, budget, pure>>

\* stop()
Stop ==
  /\ started
  /\ isShuttingDown' = TRUE
  /\ IF reconnectTimer # "null"
     THEN /\ reconnectTimer' = "null"
          /\ timersPending' = IF reconnectTimer = "live" THEN timersPending - 1 ELSE timersPending
     ELSE UNCHANGED <<reconnectTimer, timersPending>>
  /\ Cleanup
  /\ IF ws # "null"
     THEN /\ closeCode' = 1000
          /\ closing' = IF ws \in {"connecting", "open"} THEN closing + 1 ELSE closing
          /\ ws' = "null"
     ELSE UNCHANGED <<closeCode, closing, ws>>
  /\ UNCHANGED <<started, wsAvailable, connectPending, leaked, reconnectAttempts,
                 lastDelay, today, caps, refs, budget, pure>>

\* The wall clock passes midnight.
Tick ==
  /\ today < MaxDay
  /\ today' = today + 1
  /\ UNCHANGED <<conn, caps, refs, budget, pure>>

(***************************************************************************)
(* Refund processing                                                       *)
(***************************************************************************)
\* sendMessage(): the message reaches the wire only if this.ws is OPEN.
CanSend == ws = "open"

\* new RegExp('^' + pattern.replace(/\*/g, '.*') + '$').test(url): an anchored
\* match of the whole url in which each `*` stands for any run of tokens.
RECURSIVE PatternMatches(_, _)
PatternMatches(pattern, url) ==
  IF pattern = <<>> THEN url = <<>>
  ELSE IF Head(pattern) = "*"
       THEN \/ PatternMatches(Tail(pattern), url)
            \/ url # <<>> /\ PatternMatches(pattern, Tail(url))
       ELSE /\ url # <<>>
            /\ Head(url) = Head(pattern)
            /\ PatternMatches(Tail(pattern), Tail(url))

\* getEndpointConfig(url): index of the override of the first pattern, in
\* declaration order, that matches the url; 0 if none.
GetEndpointConfig(url) ==
  LET hits == {k \in 1..Len(Endpoints) : PatternMatches(Endpoints[k].pattern, url)}
  IN IF hits = {} THEN 0
     ELSE (CHOOSE k \in hits : \A j \in hits : k <= j)

\* String.prototype.startsWith
StartsWith(s, p) == Len(s) >= Len(p) /\ SubSeq(s, 1, Len(p)) = p

\* The dispatch with any unknown network handed to the EVM executor
NetworkFamily_DefaultEvm(network) ==
  IF network = <<"s", "o", "l", "a", "n", "a">>
     \/ StartsWith(network, <<"s", "o", "l", "a", "n", "a", ":">>)
  THEN "solana"
  ELSE "evm"

\* executeRefundTx: the network dispatch
NetworkFamily(network) ==
  IF StartsWith(network, <<"e", "i", "p", "1", "5", "5", ":">>)
     \/ network = <<"b", "a", "s", "e">>
     \/ network = <<"e", "t", "h", "e", "r", "e", "u", "m">>
  THEN "evm"
  ELSE IF network = <<"s", "o", "l", "a", "n", "a">>
          \/ StartsWith(network, <<"s", "o", "l", "a", "n", "a", ":">>)
       THEN "solana"
       ELSE "unsupported"

\* executeEvmRefund / executeSolanaRefund get past their key check and talk
\* to the chain.
ChainCalled(fam) ==
  \/ fam = "evm" /\ HasSigner
  \/ fam = "solana" /\ HasSolanaKey

\* The results executeRefundTx can resolve to.  Every non-retryable result
\* (unsupported network, no signer, no Solana key) is returned before the
\* first real await, so its continuation runs in the task of the delivery.
Outcomes(fam) == IF ChainCalled(fam) THEN {"ok", "retryable"} ELSE {"fatal"}

\* The counters as they are after the lazy date/month reset.
\* The counters kept across a change of date
TodayAfterReset_NoReset == todayRefundedCents
TodayAfterReset == IF today # lastCapResetDate THEN 0 ELSE todayRefundedCents
MonthAfterReset == IF MonthOf(today) # lastCapResetMonth THEN 0 ELSE monthRefundedCents

\* The cap comparisons written with >= instead of >
Decision_Inclusive(r) ==
  LET k == GetEndpointConfig(r.url)
      maxUsd == IF k # 0 /\ Endpoints[k].hasMax THEN Endpoints[k].maxRefundUsd ELSE maxRefundUsd
  IN IF r.id \in processedRefundIds THEN "skip"
     ELSE IF k # 0 /\ ~Endpoints[k].enabled THEN "disabled"
     ELSE IF AmountUsd(r) > maxUsd THEN "max"
     ELSE IF dailyCapUsd # 0 /\ TodayAfterReset + r.amountCents >= FloorCents(dailyCapUsd) THEN "daily"
     ELSE IF monthlyCapUsd # 0 /\ MonthAfterReset + r.amountCents >= FloorCents(monthlyCapUsd) THEN "monthly"
     ELSE "execute"

\* processSingleRefund up to its await: which branch the instruction takes.
Decision(r) ==
  LET k == GetEndpointConfig(r.url)
      maxUsd == IF k # 0 /\ Endpoints[k].hasMax THEN Endpoints[k].maxRefundUsd ELSE maxRefundUsd
  IN IF r.id \in processedRefundIds THEN "skip"
     ELSE IF k # 0 /\ ~Endpoints[k].enabled THEN "disabled"
     ELSE IF AmountUsd(r) > maxUsd THEN "max"
     ELSE IF dailyCapUsd # 0 /\ TodayAfterReset + r.amountCents > FloorCents(dailyCapUsd) THEN "daily"
     ELSE IF monthlyCapUsd # 0 /\ MonthAfterReset + r.amountCents > FloorCents(monthlyCapUsd) THEN "monthly"
     ELSE "execute"

\* The branches in which the date/month reset has been reached.
ReachesReset(d) == d \in {"daily", "monthly", "execute"}
\* The branches that end in a policy rejection.
PolicyRejected(d) == d \in {"disabled", "max", "daily", "monthly"}
\* every policy rejection reported as EXCEEDED_CAP
RejectedWith_AlwaysCap(d) ==
  IF PolicyRejected(d) THEN <<[reason |-> "EXCEEDED_CAP", note |-> d]>> ELSE <<>>
\* The `refund_rejected` messages the policy checks hand to sendMessage on
\* branch d: reason code and which note.
RejectedWith(d) ==
  CASE d = "disabled" -> <<[reason |-> "OTHER", note |-> d]>>
    [] d \in {"max", "daily", "monthly"} -> <<[reason |-> "EXCEEDED_CAP", note |-> d]>>
    [] OTHER -> <<>>
\* The `refund_rejected` of a failed execution, when it was sent.
RejectedExecution(sent) ==
  IF sent THEN <<[reason |-> "OTHER", note |-> "execution"]>> ELSE <<>>
\* `refund_executing` sent on entry, ahead of every check
SendsExecuting_OnEntry(d) == TRUE
\* The branches in which `refund_executing` is sent.
SendsExecuting(d) == d = "execute"

\* ws.onmessage with a `refund_required`: handleMessage and processSingleRefund
\* run up to `await this.executeRefundTx(refund)`, which itself runs up to the
\* first await of the chain executor.
Deliver(i) ==
  LET r == Refund(i)
      d == Decision(r)
      fam == NetworkFamily(r.network)
  IN /\ ws = "open"
     /\ delivered < budget.deliveries
     /\ delivered' = delivered + 1
     /\ IF ReachesReset(d)
        THEN /\ todayRefundedCents' = TodayAfterReset
             /\ lastCapResetDate' = today
             /\ monthRefundedCents' = MonthAfterReset
             /\ lastCapResetMonth' = MonthOf(today)
        ELSE UNCHANGED caps
     /\ hist' = [hist EXCEPT ![i] =
                   [@ EXCEPT !.execWire = @ \/ (SendsExecuting(d) /\ CanSend),
                             !.rejPolicyWire = @ \/ (PolicyRejected(d) /\ CanSend),
                             !.rejExecWire = @ \/ (d = "execute" /\ ~ChainCalled(fam) /\ CanSend),
                             !.dispatched = @ + (IF d = "execute" THEN 1 ELSE 0),
                             !.chainCalls = @ + (IF d = "execute" /\ ChainCalled(fam) THEN 1 ELSE 0)]]
     /\ IF d = "execute" /\ ChainCalled(fam)
        THEN /\ tasks' = tasks (+) SetToBag({[id |-> i, pc |-> "exec", fam |-> fam, res |-> "none",
                                              rejWire |-> FALSE, confWire |-> FALSE,
                                              okCalls |-> 0, errCalls |-> 0, errFlags |-> <<>>,
                                              added |-> FALSE]})
             /\ UNCHANGED last
        ELSE IF d = "execute"
        THEN LET u == [id |-> i, pc |-> "onRefundError", fam |-> fam, res |-> "fatal",
                       rejWire |-> CanSend, confWire |-> FALSE, okCalls |-> 0,
                       errCalls |-> IF HasOnRefundError THEN 1 ELSE 0,
                       errFlags |-> IF HasOnRefundError THEN <<FALSE>> ELSE <<>>,
                       added |-> FALSE]
             IN IF HasOnRefundError
                THEN tasks' = tasks (+) SetToBag({u}) /\ UNCHANGED last
                ELSE /\ last' = [id |-> u.id, res |-> u.res, rejWire |-> u.rejWire,
                                 confWire |-> u.confWire, okCalls |-> u.okCalls,
                                 errCalls |-> u.errCalls, errFlags |-> u.errFlags, added |-> u.added,
                                 rejected |-> RejectedExecution(u.rejWire),
                                 reconnected |-> lastDelay # 0]
                     /\ UNCHANGED tasks
        ELSE /\ last' = [id |-> i, res |-> d, rejWire |-> PolicyRejected(d) /\ CanSend,
                         confWire |-> FALSE, okCalls |-> 0, errCalls |-> 0, errFlags |-> <<>>,
                         added |-> FALSE,
                         rejected |-> IF CanSend THEN RejectedWith(d) ELSE <<>>,
                         reconnected |-> lastDelay # 0]
             /\ UNCHANGED tasks
     /\ UNCHANGED <<conn, today, processedRefundIds, budget, pure>>

\* The activation t is over: it leaves the bag and its summary is kept.
Finish(t, u) ==
  /\ tasks' = tasks (-) SetToBag({t})
  /\ last' = [id |-> u.id, res |-> u.res, rejWire |-> u.rejWire, confWire |-> u.confWire,
              okCalls |-> u.okCalls, errCalls |-> u.errCalls, errFlags |-> u.errFlags,
              added |-> u.added, rejected |-> RejectedExecution(u.rejWire),
              reconnected |-> lastDelay # 0]
\* The activation t goes on as u, suspended at its next await.
Suspend(t, u) ==
  /\ tasks' = (tasks (-) SetToBag({t})) (+) SetToBag({u})
  /\ UNCHANGED last

\* a success branch that leaves the monthly counter alone
ExecSuccess_NoMonth(t) ==
  LET r == Refund(t.id)
      u == [t EXCEPT !.res = "ok", !.confWire = CanSend, !.added = TRUE,
                     !.okCalls = IF HasOnRefund THEN 1 ELSE 0,
                     !.pc = "onRefund"]
  IN /\ t.pc = "exec"
     /\ "ok" \in Outcomes(t.fam)
     /\ processedRefundIds' = processedRefundIds \cup {t.id}
     /\ todayRefundedCents' = todayRefundedCents + r.amountCents
     /\ monthRefundedCents' = monthRefundedCents
     /\ hist' = [hist EXCEPT ![t.id] = [@ EXCEPT !.transfers = @ + 1,
                                                 !.confWire = @ \/ CanSend,
                                                 !.firstConnection = (lastDelay = 0)]]
     /\ IF HasOnRefund THEN Suspend(t, u) ELSE Finish(t, u)
     /\ UNCHANGED <<conn, today, lastCapResetDate, lastCapResetMonth, delivered, budget, pure>>

\* executeRefundTx resolved with success: the success branch up to `await onRefund`.
ExecSuccess(t) ==
  LET r == Refund(t.id)
      u == [t EXCEPT !.res = "ok", !.confWire = CanSend, !.added = TRUE,
                     !.okCalls = IF HasOnRefund THEN 1 ELSE 0,
                     !.pc = "onRefund"]
  IN /\ t.pc = "exec"
     /\ "ok" \in Outcomes(t.fam)
     /\ processedRefundIds' = processedRefundIds \cup {t.id}
     /\ todayRefundedCents' = todayRefundedCents + r.amountCents
     /\ monthRefundedCents' = monthRefundedCents + r.amountCents
     /\ hist' = [hist EXCEPT ![t.id] = [@ EXCEPT !.transfers = @ + 1,
                                                 !.confWire = @ \/ CanSend,
                                                 !.firstConnection = (lastDelay = 0)]]
     /\ IF HasOnRefund THEN Suspend(t, u) ELSE Finish(t, u)
     /\ UNCHANGED <<conn, today, lastCapResetDate, lastCapResetMonth, delivered, budget, pure>>

\* executeRefundTx resolved with a failure: the failure branch up to
\* `await onRefundError`.
ExecFailure(t, res) ==
  LET retryable == (res = "retryable")
      u == [t EXCEPT !.res = res, !.rejWire = ~retryable /\ CanSend,
                     !.errCalls = IF HasOnRefundError THEN 1 ELSE 0,
                     !.errFlags = IF HasOnRefundError THEN <<retryable>> ELSE <<>>,
                     !.pc = "onRefundError"]
  IN /\ t.pc = "exec"
     /\ res \in Outcomes(t.fam) \ {"ok"}
     /\ hist' = [hist EXCEPT ![t.id] = [@ EXCEPT !.rejExecWire = @ \/ (~retryable /\ CanSend)]]
     /\ IF HasOnRefundError THEN Suspend(t, u) ELSE Finish(t, u)
     /\ UNCHANGED <<conn, today, caps, processedRefundIds, delivered, budget, pure>>

\* The catch block of processSingleRefund, entered from activation t.
CatchBlock(t) ==
  IF HasOnRefundError
  THEN Suspend(t, [t EXCEPT !.errCalls = @ + 1, !.errFlags = Append(@, TRUE), !.pc = "catch"])
  ELSE Finish(t, t)

\* `await this.config.onRefund(...)` settles.
OnRefundReturn(t, throws) ==
  /\ t.pc = "onRefund"
  /\ IF throws THEN CatchBlock(t) ELSE Finish(t, t)
  /\ UNCHANGED <<conn, today, caps, processedRefundIds, delivered, hist, budget, pure>>

\* `await this.config.onRefundError(...)` of the failure branch settles.
OnRefundErrorReturn(t, throws) ==
  /\ t.pc = "onRefundError"
  /\ IF throws THEN CatchBlock(t) ELSE Finish(t, t)
  /\ UNCHANGED <<conn, today, caps, processedRefundIds, delivered, hist, budget, pure>>

\* `await this.config.onRefundError(...)` of the catch block settles; a throw
\* ends in the catch of handleMessage.
CatchReturn(t) ==
  /\ t.pc = "catch"
  /\ Finish(t, t)
  /\ UNCHANGED <<conn, today, caps, processedRefundIds, delivered, hist, budget, pure>>

DeliverAny == \E i \in budget.ids : Deliver(i)
ExecSuccessAny == \E t \in BagToSet(tasks) : ExecSuccess(t)
ExecFailureAny == \E t \in BagToSet(tasks) : \E res \in Outcomes(t.fam) \ {"ok"} : ExecFailure(t, res)
OnRefundReturnAny == \E t \in BagToSet(tasks) : \E throws \in BOOLEAN : OnRefundReturn(t, throws)
OnRefundErrorReturnAny == \E t \in BagToSet(tasks) : \E throws \in BOOLEAN : OnRefundErrorReturn(t, throws)
CatchReturnAny == \E t \in BagToSet(tasks) : CatchReturn(t)

Next ==
  \/ Start
  \/ TimerFire
  \/ ConnectOpenSocket
  \/ ConnectThrows
  \/ ConnectNoImpl
  \/ SocketOpen
  \/ SocketClose
  \/ DetachedClose
  \/ Stop
  \/ Tick
  \/ DeliverAny
  \/ ExecSuccessAny
  \/ ExecFailureAny
  \/ OnRefundReturnAny
  \/ OnRefundErrorReturnAny
  \/ CatchReturnAny

Spec == Init /\ [][Next]_vars

\* The reporting and the reconnect scenario on their own.
ReportInit == Init /\ budget = ReportScenario
ReconnectInit == Init /\ budget = ReconnectScenario
ReportSpec == ReportInit /\ [][Next]_vars
ReconnectSpec == ReconnectInit /\ [][Next]_vars

\* What the event loop guarantees: a scheduled timeout fires, a pending
\* promise (the WebSocket import, the chain executor, a callback) settles.
Fairness ==
  /\ WF_vars(TimerFire)
  /\ WF_vars(ConnectOpenSocket \/ ConnectThrows \/ ConnectNoImpl)
  /\ WF_vars(ExecSuccessAny \/ ExecFailureAny)
  /\ WF_vars(OnRefundReturnAny)
  /\ WF_vars(OnRefundErrorReturnAny)
  /\ WF_vars(CatchReturnAny)
FairSpec == Spec /\ Fairness
FairReportSpec == ReportSpec /\ Fairness
FairReconnectSpec == ReconnectSpec /\ Fairness

(***************************************************************************)
(* IEEE-754 doubles.  Every value the score takes is a multiple of 2^-56   *)
(* of magnitude below 2; it is held as sign and magnitude, the magnitude   *)
(* in units of 2^-56 as two limbs hi * 2^28 + lo.                          *)
(***************************************************************************)
Limb == 268435456
Dbl(hi, lo) == [neg |-> FALSE, hi |-> hi, lo |-> lo]
DblZero == Dbl(0, 0)
DblOne == Dbl(268435456, 0)        \* 1.0
DblHalf == Dbl(134217728, 0)       \* 0.5
Dbl01 == Dbl(26843545, 161061274)  \* 0.1 = 0x1.999999999999ap-4
Dbl02 == Dbl(53687091, 53687092)   \* 0.2 = 0x1.999999999999ap-3
Dbl03 == Dbl(80530636, 214748364)  \* 0.3 = 0x1.3333333333333p-2
Dbl04 == Dbl(107374182, 107374184) \* 0.4 = 0x1.999999999999ap-2

MagLess(a, b) == a.hi < b.hi \/ (a.hi = b.hi /\ a.lo < b.lo)
MagAdd(a, b) ==
  LET lo == a.lo + b.lo
  IN [hi |-> a.hi + b.hi + lo \div Limb, lo |-> lo % Limb]
MagSub(a, b) ==
  LET lo == a.lo - b.lo
  IN IF lo < 0 THEN [hi |-> a.hi - b.hi - 1, lo |-> lo + Limb]
     ELSE [hi |-> a.hi - b.hi, lo |-> lo]

\* Bits of the magnitude beyond the 53 a double keeps.
DropBits(m) ==
  IF m.hi >= Limb THEN 4
  ELSE IF m.hi >= Limb \div 2 THEN 3
  ELSE IF m.hi >= Limb \div 4 THEN 2
  ELSE IF m.hi >= Limb \div 8 THEN 1
  ELSE 0
\* Every result keeps all bits: arithmetic on exact decimals.
RoundNearestEven_Exact(m) == m
\* Round to nearest, ties to even.
RoundNearestEven(m) ==
  LET unit == Pow2(DropBits(m))
      rem == m.lo % unit
      base == m.lo - rem
      up == \/ 2 * rem > unit
            \/ 2 * rem = unit /\ (base \div unit) % 2 = 1
      lo == IF up THEN base + unit ELSE base
  IN [hi |-> m.hi + lo \div Limb, lo |-> lo % Limb]

\* x - p in double arithmetic, p positive.
DblSub(x, p) ==
  IF x.neg
  THEN [neg |-> TRUE] @@ RoundNearestEven(MagAdd(x, p))
  ELSE IF MagLess(x, p)
       THEN [neg |-> TRUE] @@ RoundNearestEven(MagSub(p, x))
       ELSE [neg |-> FALSE] @@ RoundNearestEven(MagSub(x, p))
\* x >= y for y positive
DblGeq(x, y) == ~x.neg /\ ~MagLess(x, y)
\* Math.max(0, Math.min(1, x))
Clamp01(x) == IF x.neg THEN DblZero ELSE IF MagLess(DblOne, x) THEN DblOne ELSE x

(***************************************************************************)
(* validateResponse                                                        *)
(***************************************************************************)
MaxArrayLen == 2   \* longest array body explored

\* A response body.  t is its JavaScript type ("array" for an array); a string
\* carries its characters, a number or an array its value or length in n, a
\* boolean its value in b, and an object the kinds of its top-level values.
Body(t, str, n, b, fields) == [t |-> t, str |-> str, n |-> n, b |-> b, fields |-> fields]
NoFields == [x \in {} |-> "undefined"]
FieldNames == {"data", "error", "ok"}
KindsOf(name) ==
  CASE name = "data" -> {"undefined", "null", "string", "number", "emptyArray", "array", "emptyObject", "object"}
    [] name = "error" -> {"null", "emptyString", "string", "true", "false", "emptyArray", "object"}
    [] OTHER -> {"true", "false"}
AllKinds == UNION {KindsOf(name) : name \in FieldNames}
ObjectBodies ==
  {Body("object", <<>>, 0, FALSE, f) :
     f \in UNION {{g \in [S -> AllKinds] : \A name \in S : g[name] \in KindsOf(name)} :
                    S \in SUBSET FieldNames}}
Bodies ==
  {Body("undefined", <<>>, 0, FALSE, NoFields), Body("null", <<>>, 0, FALSE, NoFields)}
    \cup {Body("string", str, 0, FALSE, NoFields) :
            str \in {<<>>, <<" ">>, <<"a">>, <<" ", "a", " ">>, <<"o", "k">>}}
    \cup {Body("number", <<>>, n, FALSE, NoFields) : n \in {0, 7}}
    \cup {Body("boolean", <<>>, 0, b, NoFields) : b \in BOOLEAN}
    \cup {Body("array", <<>>, n, FALSE, NoFields) : n \in 0..MaxArrayLen}
    \cup ObjectBodies

StatusCodes == {199, 200, 299, 300, 500}

\* ValidationConfig.  customValidator is given by what the callback does:
\* absent, returns valid with a passed check, returns invalid with a failed
\* check, returns invalid with no checks, or throws.
ValidationConfigs ==
  [minResponseSize : {0, 2},
   requiredFields : {{}, {"data"}},
   errorFields : {{"error", "errors"}},
   rejectEmptyCollections : BOOLEAN,
   customValidator : {"none", "valid", "invalid", "invalidNoChecks", "throws"}]
\* DEFAULT_CONFIG.validation
DefaultValidation ==
  [minResponseSize |-> 2, requiredFields |-> {}, errorFields |-> {"error", "errors"},
   rejectEmptyCollections |-> TRUE, customValidator |-> "none"]

\* String.prototype.trim
RECURSIVE TrimStart(_)
TrimStart(str) == IF str # <<>> /\ Head(str) = " " THEN TrimStart(Tail(str)) ELSE str
RECURSIVE TrimEnd(_)
TrimEnd(str) ==
  IF str # <<>> /\ str[Len(str)] = " " THEN TrimEnd(SubSeq(str, 1, Len(str) - 1)) ELSE str
Trim(str) == TrimEnd(TrimStart(str))

\* !!body
Truthy(body) ==
  CASE body.t \in {"undefined", "null"} -> FALSE
    [] body.t = "string" -> body.str # <<>>
    [] body.t = "number" -> body.n # 0
    [] body.t = "boolean" -> body.b
    [] OTHER -> TRUE
\* typeof body === 'object', for a body that is not null
IsObjectType(body) == body.t \in {"array", "object"}

isEmptyResponse(body, minSize) ==
  CASE body.t \in {"undefined", "null"} -> TRUE
    [] body.t = "string" -> body.str = <<>> \/ Len(Trim(body.str)) < minSize
    [] body.t = "array" -> body.n = 0
    [] body.t = "object" -> DOMAIN body.fields = {}
    [] OTHER -> FALSE

hasErrorIndicators(body, errorFields) ==
  /\ Truthy(body) /\ IsObjectType(body)
  /\ body.t = "object"
  /\ \/ \E field \in errorFields \cap DOMAIN body.fields :
          body.fields[field] \in {"string", "true", "array", "object"}
     \/ \E field \in {"ok", "success"} \cap DOMAIN body.fields : body.fields[field] = "false"

\* The required fields validateResponse reports as missing.
MissingFields(body, requiredFields) ==
  IF Truthy(body) /\ body.t = "object"
  THEN {field \in requiredFields :
          field \notin DOMAIN body.fields \/ body.fields[field] \in {"undefined", "null"}}
  ELSE requiredFields

\* No body is ever reported to hold an empty collection
checkEmptyCollections_Never(body) == FALSE
checkEmptyCollections(body) ==
  IF ~Truthy(body) \/ ~IsObjectType(body) THEN FALSE
  ELSE IF body.t = "array" THEN body.n = 0
  ELSE \/ DOMAIN body.fields = {}
       \/ \E field \in DOMAIN body.fields : body.fields[field] \in {"emptyArray", "emptyObject"}

Check(name, passed) == [name |-> name, passed |-> passed]
\* The validity rule without the status test
IsValid_ScoreOnly(score, isSuccessStatus, isEmpty) == DblGeq(score, DblHalf) /\ ~isEmpty
\* const valid = meaningfulnessScore >= 0.5 && isSuccessStatus && !isEmpty
IsValid(score, isSuccessStatus, isEmpty) ==
  DblGeq(score, DblHalf) /\ isSuccessStatus /\ ~isEmpty

validateResponse(body, statusCode, config) ==
  LET isSuccessStatus == statusCode >= 200 /\ statusCode < 300
      s1 == IF isSuccessStatus THEN DblOne ELSE DblSub(DblOne, Dbl03)
      isEmpty == isEmptyResponse(body, config.minResponseSize)
      s2 == IF isEmpty THEN DblSub(s1, Dbl04) ELSE s1
      hasErrors == hasErrorIndicators(body, config.errorFields)
      s3 == IF hasErrors THEN DblSub(s2, Dbl03) ELSE s2
      checksRequired == config.requiredFields # {}
      hasRequired == MissingFields(body, config.requiredFields) = {}
      s4 == IF checksRequired /\ ~hasRequired THEN DblSub(s3, Dbl02) ELSE s3
      checksCollections == config.rejectEmptyCollections /\ Truthy(body) /\ IsObjectType(body)
      hasEmptyCollection == checkEmptyCollections(body)
      s5 == IF checksCollections /\ hasEmptyCollection THEN DblSub(s4, Dbl01) ELSE s4
      custom == config.customValidator
      s6 == IF custom \in {"invalid", "invalidNoChecks"} THEN DblSub(s5, Dbl03) ELSE s5
      checks ==
        <<Check("status_code", isSuccessStatus), Check("not_empty", ~isEmpty),
          Check("no_error_fields", ~hasErrors)>>
        \o (IF checksRequired THEN <<Check("required_fields", hasRequired)>> ELSE <<>>)
        \o (IF checksCollections THEN <<Check("non_empty_collections", ~hasEmptyCollection)>> ELSE <<>>)
        \o (CASE custom = "valid" -> <<Check("custom", TRUE)>>
              [] custom = "invalid" -> <<Check("custom", FALSE)>>
              [] custom = "throws" -> <<Check("custom_validator", FALSE)>>
              [] OTHER -> <<>>)
      meaningfulnessScore == Clamp01(s6)
      valid == IsValid(meaningfulnessScore, isSuccessStatus, isEmpty)
  IN [valid |-> valid,
      checks |-> checks,
      meaningfulnessScore |-> meaningfulnessScore,
      reason |-> IF valid THEN [defined |-> FALSE, failed |-> <<>>]
                 ELSE [defined |-> TRUE, failed |-> SelectSeq(checks, LAMBDA c : ~c.passed)]]

\* A call of validateResponse on the drawn arguments.
CallValidateResponse ==
  /\ arg.fn = "validateResponse"
  /\ ret = Idle
  /\ ret' = [fn |-> "validateResponse"] @@ validateResponse(arg.body, arg.statusCode, arg.config)
  /\ UNCHANGED <<conn, today, caps, refs, budget, arg>>

ValidatorInit ==
  /\ ExecutorInit
  /\ wsAvailable
  /\ budget = ReconnectScenario
  /\ arg \in [fn : {"validateResponse"}, body : Bodies, statusCode : StatusCodes,
              config : ValidationConfigs]
  /\ ret = Idle
ValidatorNext == CallValidateResponse
ValidatorSpec == ValidatorInit /\ [][ValidatorNext]_vars

\* What a configured customValidator can do besides the outcomes above: its
\* throw statement may carry null or undefined instead of an Error object.
CustomValidators ==
  {"none", "valid", "invalid", "invalidNoChecks", "throws", "throwsNullish"}
\* The catch block of check 6 reads (error as Error).message: that read
\* throws a TypeError when the value thrown is null or undefined, and nothing
\* encloses the catch block.
CatchBlockThrows(config) == config.customValidator = "throwsNullish"
\* validateResponse called with a custom validator of any of these kinds:
\* the call either returns a result or ends with an exception.
CallValidateCustom ==
  /\ arg.fn = "validateCustom"
  /\ ret = Idle
  /\ ret' = IF CatchBlockThrows(arg.config)
            THEN [fn |-> "validateCustom", threw |-> TRUE]
            ELSE [fn |-> "validateCustom", threw |-> FALSE]
                 @@ validateResponse(arg.body, arg.statusCode, arg.config)
  /\ UNCHANGED <<conn, today, caps, refs, budget, arg>>

CustomInit ==
  /\ ExecutorInit
  /\ wsAvailable
  /\ budget = ReconnectScenario
  /\ arg \in [fn : {"validateCustom"}, body : Bodies, statusCode : {200, 500},
              config : [minResponseSize : {2},
                        requiredFields : {{}, {"data"}},
                        errorFields : {{"error", "errors"}},
                        rejectEmptyCollections : BOOLEAN,
                        customValidator : CustomValidators]]
  /\ ret = Idle
CustomNext == CallValidateCustom
CustomSpec == CustomInit /\ [][CustomNext]_vars

\* validateSchema.  A schema is its declared type ("" when it declares none)
\* and its required member: absent, or an array of property names.
SchemaTypes == {"", "object", "array", "string", "number", "null"}
RequiredLists ==
  {[isArray |-> FALSE, names |-> {}]}
    \cup {[isArray |-> TRUE, names |-> names] : names \in {{}, {"data"}, {"data", "ok"}, {"length"}}}
Schemas == [type : SchemaTypes, required : RequiredLists]
\* Array.isArray(body) ? 'array' : typeof body
ActualType(body) ==
  CASE body.t = "array" -> "array"
    [] body.t = "null" -> "object"
    [] OTHER -> body.t
\* prop in obj, for the object and array bodies and the names in use
HasProperty(body, prop) ==
  CASE body.t = "object" -> prop \in DOMAIN body.fields
    [] body.t = "array" -> prop = "length"
    [] OTHER -> FALSE
\* schema.required && Array.isArray(schema.required) && typeof body ===
\* 'object' && body !== null
ChecksRequired(body, schema) == schema.required.isArray /\ IsObjectType(body)
validateSchema(body, schema) ==
  LET expectedType == schema.type
      actualType == ActualType(body)
      missing == {prop \in schema.required.names : ~HasProperty(body, prop)}
  IN IF expectedType # "" /\ expectedType # actualType
     THEN [valid |-> FALSE, checks |-> <<Check("type", FALSE)>>,
           meaningfulnessScore |-> DblZero]
     ELSE IF ChecksRequired(body, schema) /\ missing # {}
     THEN [valid |-> FALSE,
           checks |-> <<Check("type", TRUE), Check("required_properties", FALSE)>>,
           meaningfulnessScore |-> Dbl03]
     ELSE [valid |-> TRUE,
           checks |-> <<Check("type", TRUE)>>
                        \o (IF ChecksRequired(body, schema)
                            THEN <<Check("required_properties", TRUE)>> ELSE <<>>),
           meaningfulnessScore |-> DblOne]

\* A call of validateSchema on the drawn body and schema.
CallValidateSchema ==
  /\ arg.fn = "validateSchema"
  /\ ret = Idle
  /\ ret' = [fn |-> "validateSchema"] @@ validateSchema(arg.body, arg.schema)
  /\ UNCHANGED <<conn, today, caps, refs, budget, arg>>

SchemaInit ==
  /\ ExecutorInit
  /\ wsAvailable
  /\ budget = ReconnectScenario
  /\ arg \in [fn : {"validateSchema"}, body : Bodies, schema : Schemas]
  /\ ret = Idle
SchemaNext == CallValidateSchema
SchemaSpec == SchemaInit /\ [][SchemaNext]_vars

(***************************************************************************)
(* RefundHandler.shouldRefund                                              *)
(***************************************************************************)
\* RefundConfig as RefundHandler reads it: enabled, and the triggers (absent
\* when hasTriggers is false); minMeaningfulness is undefined or a double.
NoThreshold == [defined |-> FALSE, value |-> DblZero]
Threshold(x) == [defined |-> TRUE, value |-> x]
HandlerConfigs ==
  [enabled : BOOLEAN, hasTriggers : BOOLEAN, serverError : BOOLEAN, emptyResponse : BOOLEAN,
   schemaValidation : BOOLEAN, minMeaningfulness : {NoThreshold, Threshold(DblHalf), Threshold(DblOne)}]
\* x < y on doubles that are not negative
DblLess(x, y) == MagLess(x, y)

\* The empty-response trigger tested after the schema-validation trigger
shouldRefund_SchemaFirst(config, validationResult, statusCode) ==
  LET isEmpty == \E k \in 1..Len(validationResult.checks) :
                   validationResult.checks[k].name = "not_empty" /\ ~validationResult.checks[k].passed
  IN IF ~config.enabled THEN "null"
     ELSE IF ~config.hasTriggers THEN "null"
     ELSE IF config.serverError /\ statusCode >= 500 THEN "server_error"
     ELSE IF config.schemaValidation /\ ~validationResult.valid THEN "schema_validation_failed"
     ELSE IF config.emptyResponse /\ isEmpty THEN "empty_response"
     ELSE IF config.minMeaningfulness.defined
             /\ DblLess(validationResult.meaningfulnessScore, config.minMeaningfulness.value)
     THEN "invalid_response"
     ELSE "null"
\* shouldRefund(validationResult, statusCode) of a handler with this config
shouldRefund(config, validationResult, statusCode) ==
  LET isEmpty == \E k \in 1..Len(validationResult.checks) :
                   validationResult.checks[k].name = "not_empty" /\ ~validationResult.checks[k].passed
  IN IF ~config.enabled THEN "null"
     ELSE IF ~config.hasTriggers THEN "null"
     ELSE IF config.serverError /\ statusCode >= 500 THEN "server_error"
     ELSE IF config.emptyResponse /\ isEmpty THEN "empty_response"
     ELSE IF config.schemaValidation /\ ~validationResult.valid THEN "schema_validation_failed"
     ELSE IF config.minMeaningfulness.defined
             /\ DblLess(validationResult.meaningfulnessScore, config.minMeaningfulness.value)
     THEN "invalid_response"
     ELSE "null"

\* The responses whose validation results the handler is asked about.
HandlerBodies ==
  {Body("undefined", <<>>, 0, FALSE, NoFields),
   Body("string", <<"o", "k">>, 0, FALSE, NoFields),
   Body("array", <<>>, 0, FALSE, NoFields),
   Body("object", <<>>, 0, FALSE, [x \in {"data"} |-> "string"]),
   Body("object", <<>>, 0, FALSE, [x \in {"data"} |-> "emptyArray"]),
   Body("object", <<>>, 0, FALSE, [x \in {"error"} |-> "string"]),
   Body("object", <<>>, 0, FALSE, [x \in {"error", "ok"} |-> IF x = "ok" THEN "false" ELSE "string"])}
HandlerStatusCodes == {200, 404, 499, 500, 503}

\* A call of shouldRefund on the validation result of the drawn response.
CallShouldRefund ==
  /\ arg.fn = "shouldRefund"
  /\ ret = Idle
  /\ ret' = [fn |-> "shouldRefund",
             reason |-> shouldRefund(arg.config, arg.validationResult, arg.statusCode)]
  /\ UNCHANGED <<conn, today, caps, refs, budget, arg>>

HandlerInit ==
  /\ ExecutorInit
  /\ wsAvailable
  /\ budget = ReconnectScenario
  /\ \E body \in HandlerBodies, statusCode \in HandlerStatusCodes, config \in HandlerConfigs :
       arg = [fn |-> "shouldRefund", config |-> config, statusCode |-> statusCode,
              validationResult |-> validateResponse(body, statusCode, DefaultValidation)]
  /\ ret = Idle
HandlerNext == CallShouldRefund
HandlerSpec == HandlerInit /\ [][HandlerNext]_vars

(***************************************************************************)
(* decodePaymentHeader and the Solana transaction walk                     *)
(***************************************************************************)
SigLen == 64    \* bytes of a signature
KeyLen == 32    \* bytes of a public key or of the recent blockhash
Base == 58

\* A key whose bytes are all b.
KeyOf(b) == [k \in 1..KeyLen |-> b]
KeyFeePayer == KeyOf(1)
KeySource == KeyOf(2)
KeyAuthority == KeyOf(3)
KeySystemProgram == KeyOf(0)
\* The bytes of the two SPL Token program ids.
KeyTokenProgram ==
  <<6, 221, 246, 225, 215, 101, 161, 147, 217, 203, 225, 70, 206, 235, 121, 172,
    28, 180, 133, 237, 95, 91, 55, 145, 58, 140, 245, 133, 126, 255, 0, 169>>
KeyToken2022Program ==
  <<6, 221, 246, 225, 238, 117, 143, 222, 24, 66, 93, 188, 228, 108, 205, 218,
    182, 26, 252, 77, 131, 185, 13, 39, 254, 189, 249, 40, 216, 161, 139, 252>>
SPL_TOKEN_PROGRAM ==
  <<"T", "o", "k", "e", "n", "k", "e", "g", "Q", "f", "e", "Z", "y", "i", "N", "w", "A", "J", "b", "N", "b", "G", "K", "P", "F", "X", "C", "W", "u", "B", "v", "f", "9", "S", "s", "6", "2", "3", "V", "Q", "5", "D", "A">>
SPL_TOKEN_2022_PROGRAM ==
  <<"T", "o", "k", "e", "n", "z", "Q", "d", "B", "N", "b", "L", "q", "P", "5", "V", "E", "h", "d", "k", "A", "S", "6", "E", "P", "F", "L", "C", "1", "P", "H", "n", "B", "q", "C", "X", "E", "p", "P", "x", "u", "E", "b">>
ALPHABET ==
  <<"1", "2", "3", "4", "5", "6", "7", "8", "9", "A", "B", "C", "D", "E", "F", "G", "H", "J", "K", "L", "M", "N", "P", "Q", "R", "S", "T", "U", "V",
    "W", "X", "Y", "Z", "a", "b", "c", "d", "e", "f", "g", "h", "i", "j", "k", "m", "n", "o", "p", "q", "r", "s", "t", "u", "v", "w", "x", "y", "z">>

\* JavaScript `undefined` as the value of a byte read, NaN as an offset.
Undefined == -1
NaN == -2

\* num / 58 and num % 58 for num given by its base-256 digits, most
\* significant first: [q |-> digits of the quotient, r |-> remainder].
\* Leading zero digits of the quotient are not kept.
RECURSIVE DivMod(_, _, _)
DivMod(digits, carry, quotient) ==
  IF digits = <<>> THEN [q |-> quotient, r |-> carry]
  ELSE LET cur == carry * 256 + Head(digits)
       IN DivMod(Tail(digits), cur % Base,
                 IF quotient = <<>> /\ cur < Base THEN <<>> ELSE Append(quotient, cur \div Base))
IsZero(digits) == \A k \in 1..Len(digits) : digits[k] = 0
\* while (num > 0) { result = ALPHABET[num % 58] + result; num = num / 58 }
RECURSIVE Base58Digits(_, _)
Base58Digits(digits, result) ==
  IF IsZero(digits) THEN result
  ELSE LET d == DivMod(digits, 0, <<>>)
       IN Base58Digits(d.q, <<ALPHABET[d.r + 1]>> \o result)
\* Leading zero bytes left out of the text
LeadingOnes_None(bytes) == <<>>
\* one '1' for every leading zero byte
RECURSIVE LeadingOnes(_)
LeadingOnes(bytes) ==
  IF bytes # <<>> /\ Head(bytes) = 0 THEN <<"1">> \o LeadingOnes(Tail(bytes)) ELSE <<>>
base58Encode(bytes) ==
  LET result == LeadingOnes(bytes) \o Base58Digits(bytes, <<>>)
  IN IF result = <<>> THEN <<"1">> ELSE result

\* An optional string: null, or the characters.
Null == [isNull |-> TRUE, str |-> <<>>]
Str(chars) == [isNull |-> FALSE, str |-> chars]
Falsy(v) == v.isNull \/ v.str = <<>>

\* txBytes[offset]
ByteAt(txBytes, offset) ==
  IF offset >= 0 /\ offset < Len(txBytes) THEN txBytes[offset + 1] ELSE Undefined
\* offset + n on JavaScript numbers
Plus(offset, n) == IF offset = NaN \/ n = Undefined \/ n = NaN THEN NaN ELSE offset + n
\* txBytes.slice(from, to)
Slice(txBytes, from, to) ==
  SubSeq(txBytes, from + 1, IF to < Len(txBytes) THEN to ELSE Len(txBytes))
\* base58Encode(accountKeys[index]): a missing element makes base58Encode
\* throw, and the catch of extractSolanaFeePayer turns that into null.
EncodeKeyAt(accountKeys, index) ==
  IF index >= 0 /\ index < Len(accountKeys) THEN Str(base58Encode(accountKeys[index + 1]))
  ELSE Null

\* The offset and the header reads shared by both copies of the walk: the
\* offset of the account-key count.
AccountsOffset(txBytes) ==
  LET numSignatures == ByteAt(txBytes, 0)
      afterSigs == IF numSignatures = Undefined THEN NaN ELSE 1 + numSignatures * SigLen
      first == ByteAt(txBytes, afterSigs)
      afterVersion == IF first # Undefined /\ first >= 128 THEN afterSigs + 1 ELSE afterSigs
  IN Plus(afterVersion, 3)

\* The instruction loop, from instruction i on, at the given offset.
RECURSIVE InstructionLoop(_, _, _, _, _)
InstructionLoop(txBytes, accountKeys, offset, i, numInstructions) ==
  IF numInstructions = Undefined \/ i >= numInstructions
  THEN EncodeKeyAt(accountKeys, 0)
  ELSE LET programIdIndex == ByteAt(txBytes, offset)
           numIxAccounts == ByteAt(txBytes, Plus(offset, 1))
           count == IF numIxAccounts = Undefined THEN 0 ELSE numIxAccounts
           ixAccountIndices == [j \in 1..count |-> ByteAt(txBytes, Plus(offset, 1 + j))]
           dataAt == Plus(offset, 2 + count)
           dataLen == ByteAt(txBytes, dataAt)
           next == Plus(Plus(dataAt, 1), dataLen)
           programAddr == EncodeKeyAt(accountKeys, programIdIndex)
       IN IF programAddr.isNull THEN Null
          ELSE IF programAddr.str \in {SPL_TOKEN_PROGRAM, SPL_TOKEN_2022_PROGRAM} /\ count >= 3
          THEN EncodeKeyAt(accountKeys, ixAccountIndices[IF count >= 4 THEN 4 ELSE 3])
          ELSE InstructionLoop(txBytes, accountKeys, next, i + 1, numInstructions)

\* extractSolanaFeePayer, the copy with the instruction walk
extractSolanaFeePayer(txBytes) ==
  LET at == AccountsOffset(txBytes)
      numAccounts == ByteAt(txBytes, at)
      count == IF numAccounts = Undefined THEN 0 ELSE numAccounts
      keysAt == Plus(at, 1)
      accountKeys == [k \in 1..count |->
                        Slice(txBytes, keysAt + (k - 1) * KeyLen, keysAt + k * KeyLen)]
      instrAt == Plus(Plus(keysAt, count * KeyLen), KeyLen)
  IN IF count = 0 THEN Null
     ELSE InstructionLoop(txBytes, accountKeys, Plus(instrAt, 1), 0, ByteAt(txBytes, instrAt))

\* extractSolanaFeePayer, the copy of src/utils.ts: the first account key
extractSolanaFeePayer_utils(txBytes) ==
  LET at == AccountsOffset(txBytes)
      numAccounts == ByteAt(txBytes, at)
      keysAt == Plus(at, 1)
  IN IF numAccounts # Undefined /\ numAccounts > 0 /\ keysAt # NaN /\ keysAt + KeyLen <= Len(txBytes)
     THEN Str(base58Encode(Slice(txBytes, keysAt, keysAt + KeyLen)))
     ELSE Null

\* A transaction as its sender builds it, and its wire bytes.
Instruction(programIdIndex, accounts, data) ==
  [programIdIndex |-> programIdIndex, accounts |-> accounts, data |-> data]
Transaction(numSignatures, versioned, accountKeys, instructions) ==
  [numSignatures |-> numSignatures, versioned |-> versioned,
   accountKeys |-> accountKeys, instructions |-> instructions]
NoTransaction == Transaction(0, FALSE, <<>>, <<>>)
RECURSIVE Flatten(_)
Flatten(seqs) == IF seqs = <<>> THEN <<>> ELSE Head(seqs) \o Flatten(Tail(seqs))
SerializeInstruction(ix) ==
  <<ix.programIdIndex, Len(ix.accounts)>> \o ix.accounts \o <<Len(ix.data)>> \o ix.data
Serialize(tx) ==
  <<tx.numSignatures>>
    \o [k \in 1..(tx.numSignatures * SigLen) |-> 9]
    \o (IF tx.versioned THEN <<128>> ELSE <<>>)
    \o <<tx.numSignatures, 0, 1>>
    \o <<Len(tx.accountKeys)>> \o Flatten(tx.accountKeys)
    \o [k \in 1..KeyLen |-> 7]
    \o <<Len(tx.instructions)>>
    \o Flatten([k \in 1..Len(tx.instructions) |-> SerializeInstruction(tx.instructions[k])])

\* The JSON document of a payment header, by the fields the decoder reads;
\* transaction is the transaction that payload.transaction holds in base64,
\* of which only the first `keep` bytes are there when it is truncated.
AddrEvm == <<"0", "x", "A", "b">>
NetSolanaMainnet ==
  <<"s", "o", "l", "a", "n", "a", ":", "5", "e", "y", "k", "t", "4", "U", "s", "F", "v", "8", "P", "8", "N", "J", "d", "T", "R", "E", "p", "Y", "1", "v", "z", "q", "K", "q", "Z", "K", "v", "d", "p">>
NoJson ==
  [authorizationFrom |-> Null, payer |-> Null, from |-> Null, payloadFrom |-> Null,
   signatureAddress |-> Null, hasTransaction |-> FALSE, transaction |-> NoTransaction,
   truncated |-> FALSE, keep |-> 0,
   authorizationValue |-> Null, acceptedAmount |-> Null, amount |-> Null,
   payloadAmount |-> Null, authorizationNetwork |-> Null, network |-> Null,
   payloadNetwork |-> Null]

\* Buffer.from(parsed.payload.transaction, 'base64'): the bytes that arrived
TxBytes(parsed) ==
  LET whole == Serialize(parsed.transaction)
  IN IF parsed.truncated THEN Slice(whole, 0, parsed.keep) ELSE whole

\* a || b || ... without the closing `|| null`: the last operand as it is
RECURSIVE FirstTruthy_NoDefault(_)
FirstTruthy_NoDefault(values) ==
  IF values = <<>> THEN Null
  ELSE IF Falsy(Head(values)) /\ Len(values) > 1 THEN FirstTruthy_NoDefault(Tail(values))
  ELSE Head(values)
\* a || b || ... || null
RECURSIVE FirstTruthy(_)
FirstTruthy(values) ==
  IF values = <<>> THEN Null
  ELSE IF Falsy(Head(values)) THEN FirstTruthy(Tail(values)) ELSE Head(values)

\* Header texts are sequences of characters.  Printable is ASCII 32..126 in
\* order, so the code of a character is 31 plus its position.
Printable ==
  <<" ", "!", "\"", "#", "$", "%", "&", "'", "(", ")", "*", "+", ",", "-", ".", "/",
    "0", "1", "2", "3", "4", "5", "6", "7", "8", "9", ":", ";", "<", "=", ">", "?",
    "@", "A", "B", "C", "D", "E", "F", "G", "H", "I", "J", "K", "L", "M", "N", "O",
    "P", "Q", "R", "S", "T", "U", "V", "W", "X", "Y", "Z", "[", "\\", "]", "^", "_",
    "grave", "a", "b", "c", "d", "e", "f", "g", "h", "i", "j", "k", "l", "m", "n", "o",
    "p", "q", "r", "s", "t", "u", "v", "w", "x", "y", "z", "{", "|", "}", "~">>
FirstPrintable == 32
CharCode(c) == FirstPrintable - 1 + (CHOOSE k \in 1..Len(Printable) : Printable[k] = c)
\* The character a decoded byte becomes: itself for printable ASCII; a
\* control character, U+FFFD (utf-8) or a Latin-1 letter (atob) otherwise,
\* none of which JSON admits outside a string.
NotJsonChar == "<?>"
CharOf(byte) ==
  IF byte >= FirstPrintable /\ byte < FirstPrintable + Len(Printable)
  THEN Printable[byte - FirstPrintable + 1]
  ELSE NotJsonChar

\* The base64 alphabet; Buffer also reads the url-safe '-' and '_'.
Base64Chars ==
  <<"A", "B", "C", "D", "E", "F", "G", "H", "I", "J", "K", "L", "M", "N", "O", "P",
    "Q", "R", "S", "T", "U", "V", "W", "X", "Y", "Z", "a", "b", "c", "d", "e", "f",
    "g", "h", "i", "j", "k", "l", "m", "n", "o", "p", "q", "r", "s", "t", "u", "v",
    "w", "x", "y", "z", "0", "1", "2", "3", "4", "5", "6", "7", "8", "9", "+", "/">>
Sextet(c) ==
  IF \E k \in 1..Len(Base64Chars) : Base64Chars[k] = c
  THEN (CHOOSE k \in 1..Len(Base64Chars) : Base64Chars[k] = c) - 1
  ELSE -1
SextetUrl(c) == IF c = "-" THEN 62 ELSE IF c = "_" THEN 63 ELSE Sextet(c)

\* Groups of four sextets to bytes; two left over give one byte, three two.
RECURSIVE SextetsToBytes(_)
SextetsToBytes(v) ==
  IF Len(v) < 2 THEN <<>>
  ELSE LET b1 == v[1] * 4 + v[2] \div 16
       IN IF Len(v) = 2 THEN <<b1>>
          ELSE LET b2 == (v[2] % 16) * 16 + v[3] \div 4
               IN IF Len(v) = 3 THEN <<b1, b2>>
                  ELSE <<b1, b2, (v[3] % 4) * 64 + v[4]>> \o SextetsToBytes(SubSeq(v, 5, Len(v)))
\* The text as its sender base64-encodes it.
RECURSIVE BytesToBase64(_)
BytesToBase64(b) ==
  IF b = <<>> THEN <<>>
  ELSE LET c1 == Base64Chars[b[1] \div 4 + 1]
       IN IF Len(b) = 1 THEN <<c1, Base64Chars[(b[1] % 4) * 16 + 1], "=", "=">>
          ELSE LET c2 == Base64Chars[(b[1] % 4) * 16 + b[2] \div 16 + 1]
               IN IF Len(b) = 2 THEN <<c1, c2, Base64Chars[(b[2] % 16) * 4 + 1], "=">>
                  ELSE <<c1, c2, Base64Chars[(b[2] % 16) * 4 + b[3] \div 64 + 1],
                         Base64Chars[(b[3] % 64) + 1]>> \o BytesToBase64(SubSeq(b, 4, Len(b)))
Base64Of(text) == BytesToBase64([k \in 1..Len(text) |-> CharCode(text[k])])

\* The text up to its first '='.
RECURSIVE UpToPadding(_)
UpToPadding(text) ==
  IF text = <<>> \/ Head(text) = "=" THEN <<>> ELSE <<Head(text)>> \o UpToPadding(Tail(text))
\* Buffer.from(text, 'base64').toString('utf-8'): characters outside the
\* alphabet are skipped, decoding stops at '=', nothing throws.
BufferDecode(text) ==
  LET legal == SelectSeq(UpToPadding(text), LAMBDA c : SextetUrl(c) >= 0)
      bytes == SextetsToBytes([k \in 1..Len(legal) |-> SextetUrl(legal[k])])
  IN [threw |-> FALSE, text |-> [k \in 1..Len(bytes) |-> CharOf(bytes[k])]]
\* atob(text): throws on a character outside the alphabet and on a length
\* that no padding completes.
Atob(text) ==
  LET stripped == SelectSeq(text, LAMBDA c : c # " ")
      n == Len(stripped)
      pads == IF (n % 4) = 0 /\ n >= 2 /\ stripped[n] = "="
              THEN (IF stripped[n - 1] = "=" THEN 2 ELSE 1)
              ELSE 0
      data == SubSeq(stripped, 1, n - pads)
      bytes == SextetsToBytes([k \in 1..Len(data) |-> Sextet(data[k])])
  IN IF (Len(data) % 4) = 1 \/ \E k \in 1..Len(data) : Sextet(data[k]) < 0
     THEN [threw |-> TRUE, text |-> <<>>]
     ELSE [threw |-> FALSE, text |-> [k \in 1..Len(bytes) |-> CharOf(bytes[k])]]

\* JSON texts and what JSON.parse makes of them: an object (given by the
\* fields the decoder reads), null, or another value (number, boolean,
\* string, array), on which every property read is undefined.
TextPayer == <<"{", "\"", "p", "a", "y", "e", "r", "\"", ":", "\"", "p", "\"", "}">>
TextEmptyObject == <<"{", "}">>
TextNull == <<"n", "u", "l", "l">>
TextTrue == <<"t", "r", "u", "e">>
TextNumber == <<"7">>
TextString == <<"\"", "s", "\"">>
TextArray == <<"[", "]">>
JsonTexts == {TextPayer, TextEmptyObject, TextNull, TextTrue, TextNumber, TextString, TextArray}
\* Texts that are neither JSON nor base64 of JSON.
TextWord == <<"h", "e", "l", "l", "o">>
TextBang == <<"!", "!">>
JsonParse(text) ==
  CASE text = TextPayer ->
         [threw |-> FALSE, kind |-> "object", parsed |-> [NoJson EXCEPT !.payer = Str(<<"p">>)]]
    [] text = TextEmptyObject -> [threw |-> FALSE, kind |-> "object", parsed |-> NoJson]
    [] text = TextNull -> [threw |-> FALSE, kind |-> "null", parsed |-> NoJson]
    [] text \in {TextTrue, TextNumber, TextString, TextArray} ->
         [threw |-> FALSE, kind |-> "other", parsed |-> NoJson]
    [] OTHER -> [threw |-> TRUE, kind |-> "none", parsed |-> NoJson]

\* The inner try of decodePaymentHeader: base64 first, the text itself when
\* the decoder throws.
DecodeHeader(hasBuffer, text) ==
  IF hasBuffer THEN BufferDecode(text).text
  ELSE LET a == Atob(text) IN IF a.threw THEN text ELSE a.text

NoPayment == [isNull |-> TRUE, payer |-> Null, amount |-> Null, network |-> Null]
\* decodePaymentHeader once JSON.parse has returned the object `parsed`; copy
\* names the copy of utils.ts: "walk" recovers the transfer authority,
\* "first" is src/utils.ts.
ExtractPayment(copy, parsed) ==
  LET named == FirstTruthy(<<parsed.authorizationFrom, parsed.payer, parsed.from,
                             parsed.payloadFrom, parsed.signatureAddress>>)
      payer == IF Falsy(named) /\ parsed.hasTransaction
               THEN (IF copy = "walk" THEN extractSolanaFeePayer(TxBytes(parsed))
                     ELSE extractSolanaFeePayer_utils(TxBytes(parsed)))
               ELSE named
      amount == FirstTruthy(<<parsed.authorizationValue>>
                            \o (IF copy = "walk" THEN <<parsed.acceptedAmount>> ELSE <<>>)
                            \o <<parsed.amount, parsed.payloadAmount>>)
      named_network == FirstTruthy(<<parsed.authorizationNetwork, parsed.network,
                                     parsed.payloadNetwork>>)
      network == IF Falsy(named_network) /\ parsed.hasTransaction /\ ~Falsy(payer)
                 THEN Str(NetSolanaMainnet)
                 ELSE named_network
  IN [isNull |-> FALSE, payer |-> payer, amount |-> amount, network |-> network]

\* decodePaymentHeader.  The header is null ("null"), a text given by its
\* characters ("text"), or given by what it decodes to: the base64 text of
\* something JSON.parse rejects ("unparseable") or of the object `parsed`
\* ("json").  hasBuffer is `typeof Buffer !== 'undefined'`.  A TypeError on
\* reading a property of null ends in the outer catch.
decodePaymentHeader(copy, hasBuffer, header) ==
  CASE header.kind = "json" -> ExtractPayment(copy, header.parsed)
    [] header.kind = "text" /\ header.text # <<>> ->
         LET value == JsonParse(DecodeHeader(hasBuffer, header.text))
         IN IF value.threw \/ value.kind = "null" THEN NoPayment
            ELSE ExtractPayment(copy, value.parsed)
    [] OTHER -> NoPayment

\* The transactions and headers explored.
MaxIxAccounts == 4   \* most account indices an instruction lists
MaxInstructions == 2 \* most instructions of a transaction
AccountTables ==
  {<<KeyFeePayer, KeySource, KeyAuthority, KeyTokenProgram>>,
   <<KeyFeePayer, KeyToken2022Program, KeySource, KeyAuthority>>,
   <<KeyFeePayer, KeySource, KeyAuthority, KeySystemProgram>>}
IndexLists == UNION {[1..n -> {0, 2}] : n \in 0..MaxIxAccounts}
Instructions == {Instruction(p, accounts, <<12, 0>>) : p \in {1, 3}, accounts \in IndexLists}
\* Instructions that come before the last one: a two-account instruction of
\* the program at index 3 and a one-account instruction of the one at index 1.
Fillers == {Instruction(3, <<0, 2>>, <<>>), Instruction(1, <<0>>, <<3, 0, 0>>)}
InstructionLists ==
  {<<>>} \cup {Flatten(<<fill, <<ix>>>>) :
                 fill \in UNION {[1..n -> Fillers] : n \in 0..(MaxInstructions - 1)},
                 ix \in Instructions}
Transactions ==
  {Transaction(1, FALSE, keys, instructions) :
     keys \in AccountTables, instructions \in InstructionLists}
    \cup {Transaction(1, TRUE, <<KeyFeePayer, KeySource, KeyAuthority, KeyTokenProgram>>, instructions) :
            instructions \in InstructionLists}
\* The header carrying transaction tx and nothing else.
HeaderOf(tx) ==
  [kind |-> "json",
   parsed |-> [NoJson EXCEPT !.hasTransaction = TRUE, !.transaction = tx]]
Headers ==
  {[kind |-> "null", parsed |-> NoJson], [kind |-> "unparseable", parsed |-> NoJson]}
    \cup {[kind |-> "json",
           parsed |-> [NoJson EXCEPT !.authorizationFrom = a, !.payer = b, !.amount = c,
                                     !.acceptedAmount = d, !.network = e]] :
            a \in {Null, Str(AddrEvm)}, b \in {Null, Str(<<>>), Str(<<"p">>)},
            c \in {Null, Str(<<"5">>)}, d \in {Null, Str(<<"7">>)}, e \in {Null, Str(NetBase)}}
    \cup {[kind |-> "json",
           parsed |-> [NoJson EXCEPT !.signatureAddress = a, !.payloadAmount = a, !.payloadNetwork = a]] :
            a \in {Str(<<>>), Str(<<"z">>)}}

\* Transactions cut short in transit, at every length, and transactions whose
\* instruction names a program or an account beyond the account table.
TransferChecked ==
  Transaction(1, FALSE, <<KeyFeePayer, KeySource, KeyAuthority, KeyTokenProgram>>,
              <<Instruction(3, <<0, 0, 0, 2>>, <<12, 0>>)>>)
SystemTransfer ==
  Transaction(1, FALSE, <<KeyFeePayer, KeySource, KeyAuthority, KeySystemProgram>>,
              <<Instruction(3, <<0, 2>>, <<2, 0, 0>>)>>)
TruncatedOf(tx, keep) ==
  [kind |-> "json",
   parsed |-> [NoJson EXCEPT !.hasTransaction = TRUE, !.transaction = tx,
                             !.truncated = TRUE, !.keep = keep]]
TruncatedHeaders ==
  {TruncatedOf(tx, keep) : tx \in {TransferChecked}, keep \in 0..(Len(Serialize(TransferChecked)) - 1)}
    \cup {TruncatedOf(tx, keep) : tx \in {SystemTransfer}, keep \in 0..(Len(Serialize(SystemTransfer)) - 1)}
\* Transactions with two token instructions that name different authorities,
\* and with a token instruction after one of another program.
SeveralTransfers ==
  {Transaction(1, v, <<KeyFeePayer, KeySource, KeyAuthority, KeyTokenProgram, KeyToken2022Program, KeySystemProgram>>,
               <<Instruction(p, a, <<12, 0>>), Instruction(q, b, <<3>>)>>) :
     v \in BOOLEAN, p \in {3, 4, 5}, q \in {3, 4},
     a \in {<<0, 1, 2>>, <<0, 1, 0, 2>>, <<1, 2>>}, b \in {<<0, 2, 1>>, <<2, 0, 2, 1, 0>>}}
OutOfTable == 9
InconsistentTransactions ==
  {Transaction(1, FALSE, <<KeyFeePayer, KeySource, KeyAuthority, KeyTokenProgram>>,
               <<Instruction(p, accounts, <<12, 0>>)>>) :
     p \in {3, OutOfTable}, accounts \in {<<0, 0, 0, OutOfTable>>, <<0, 0, OutOfTable>>, <<0, 0, 2>>}}

\* Headers given by their text: JSON texts as they are and base64-encoded,
\* the empty text and texts that are neither.
TextHeader(text) == [kind |-> "text", parsed |-> NoJson, text |-> text]
TextHeaders ==
  {TextHeader(text) : text \in JsonTexts \cup {<<>>, TextWord, TextBang}}
    \cup {TextHeader(Base64Of(text)) : text \in JsonTexts \cup {TextWord}}

\* A call of decodePaymentHeader on the drawn header.
CallDecodePaymentHeader ==
  /\ arg.fn = "decodePaymentHeader"
  /\ ret = Idle
  /\ ret' = [fn |-> "decodePaymentHeader"] @@ decodePaymentHeader(arg.copy, arg.hasBuffer, arg.header)
  /\ UNCHANGED <<conn, today, caps, refs, budget, arg>>

\* The byte sequences base58Encode is called on: keys, and short inputs.
EncoderInputs ==
  {KeySystemProgram, KeyFeePayer, KeyTokenProgram, KeyToken2022Program,
   <<>>, <<0>>, <<0, 0>>, <<0, 1>>, <<1, 0>>, <<57>>, <<58>>, <<255, 255>>}
\* A call of base58Encode on the drawn bytes.
CallBase58Encode ==
  /\ arg.fn = "base58Encode"
  /\ ret = Idle
  /\ ret' = [fn |-> "base58Encode", str |-> base58Encode(arg.bytes)]
  /\ UNCHANGED <<conn, today, caps, refs, budget, arg>>

DecoderInit ==
  /\ ExecutorInit
  /\ wsAvailable
  /\ budget = ReconnectScenario
  /\ arg \in [fn : {"decodePaymentHeader"}, copy : {"walk", "first"}, hasBuffer : {TRUE},
              header : Headers \cup {HeaderOf(tx) : tx \in Transactions \cup InconsistentTransactions
                                                            \cup SeveralTransfers}
                         \cup TruncatedHeaders]
             \cup [fn : {"decodePaymentHeader"}, copy : {"walk", "first"}, hasBuffer : BOOLEAN,
                   header : TextHeaders]
             \cup [fn : {"base58Encode"}, bytes : EncoderInputs]
  /\ ret = Idle
DecoderNext == CallDecodePaymentHeader \/ CallBase58Encode
DecoderSpec == DecoderInit /\ [][DecoderNext]_vars

(***************************************************************************)
(* The Express middleware: one request, from the middleware function to    *)
(* the response method the route handler calls                             *)
(***************************************************************************)
\* A JavaScript value handed to a response method, by its type; for a string,
\* json tells whether JSON.parse accepts it.  "bigint" is an object holding a
\* BigInt, which the application's 'json replacer' serialises.
Value(t, json) == [t |-> t, json |-> json]
UndefinedValue == Value("undefined", FALSE)
\* JSON.stringify(value) without a replacer: a string, undefined, or a throw
StringifyThrows(value) == value.t = "bigint"
Stringify(value) ==
  IF value.t \in {"undefined", "function"} THEN UndefinedValue ELSE Value("string", TRUE)

\* What has happened to the response: the original methods invoked, in
\* order, with their arguments; the telemetry events queued; responseSent;
\* whether an exception is propagating to the caller; the eventId of the
\* request event of the closure; whether payment information is at hand; the
\* next eventId createEventBase gives out.
NoObservation ==
  [originals |-> <<>>, events |-> <<>>, responseSent |-> FALSE, threw |-> FALSE,
   requestEventId |-> 0, paid |-> FALSE, nextId |-> 1]
\* client.queueEvent({...client.createEventBase(type), requestEventId})
Queued(o, type) ==
  [o EXCEPT !.events = Append(@, [type |-> type, eventId |-> o.nextId,
                                  requestEventId |-> o.requestEventId]),
            !.nextId = @ + 1]
Invoked(o, method, args) == [o EXCEPT !.originals = Append(@, [method |-> method, args |-> args])]

\* captureResponse(body): getByteSize(body) calls JSON.stringify(body) for a
\* body that is not a string, undefined or null, and Buffer.byteLength on its
\* result.
captureResponse(o, body) ==
  LET sent == [o EXCEPT !.responseSent = TRUE]
      paid == IF o.paid THEN Queued(sent, "payment") ELSE sent
  IN IF o.responseSent THEN o
     ELSE IF body.t \notin {"undefined", "null", "string"} /\ (StringifyThrows(body) \/ Stringify(body).t = "undefined")
          THEN [paid EXCEPT !.threw = TRUE]
          ELSE Queued(paid, "response")
\* try { captureResponse(JSON.parse(text)) } catch { captureResponse(text) }
CaptureText(o, text) ==
  IF text.t = "string" /\ text.json
  THEN LET c == captureResponse(o, Value("object", FALSE))
       IN IF c.threw THEN captureResponse([c EXCEPT !.threw = FALSE], text) ELSE c
  ELSE captureResponse(o, text)

\* http.ServerResponse.end(chunk, encoding, callback): a function given as
\* chunk or as encoding is the callback.
NodeEnd(args) ==
  IF args.chunk.t = "function"
  THEN [chunk |-> UndefinedValue, encoding |-> "none", callback |-> TRUE]
  ELSE IF args.encoding = "function"
       THEN [chunk |-> args.chunk, encoding |-> "none", callback |-> TRUE]
       ELSE args
\* The arguments the overridden res.end passes on to originalEnd.
ForwardedEnd(args) ==
  IF args.encoding = "function" THEN [chunk |-> args.chunk, encoding |-> "function", callback |-> FALSE]
  ELSE IF args.encoding # "none" THEN args
  ELSE [chunk |-> args.chunk, encoding |-> IF args.callback THEN "function" ELSE "none",
        callback |-> FALSE]

\* res.end, res.send and res.json as the route handler and Express itself
\* call them: the override when the middleware has installed it (over), then
\* the original; Express's json calls this.send, its send calls this.json
\* for an object and this.end otherwise.
ResEnd(over, args, o) ==
  LET c == IF ~over THEN o
           ELSE IF ~o.responseSent /\ args.chunk.t # "undefined"
                THEN CaptureText(o, IF args.chunk.t = "string" THEN args.chunk
                                    ELSE Value("string", FALSE))
                ELSE captureResponse(o, Value("null", FALSE))
  IN IF c.threw THEN c
     ELSE Invoked(c, "end", NodeEnd(IF over THEN ForwardedEnd(args) ELSE args))
RECURSIVE ResSend(_, _, _)
ResJson(over, body, o) ==
  LET c == IF over THEN captureResponse(o, body) ELSE o
  IN IF c.threw THEN c
     ELSE ResSend(over, Stringify(body), Invoked(c, "json", body))
ResSend(over, body, o) ==
  LET c == IF ~over THEN o
           ELSE IF body.t = "string" THEN CaptureText(o, body)
           ELSE captureResponse(o, body)
      sent == Invoked(c, "send", body)
  IN IF c.threw THEN c
     ELSE IF body.t \in {"object", "bigint"} THEN ResJson(over, body, sent)
     ELSE ResEnd(over, [chunk |-> body,
                        encoding |-> IF body.t = "string" THEN "utf8" ELSE "none",
                        callback |-> FALSE], sent)

\* The calls a route handler ends its response with.
EndArguments ==
  [chunk : {UndefinedValue, Value("string", TRUE), Value("string", FALSE), Value("buffer", FALSE)},
   encoding : {"none", "utf8", "function"}, callback : {FALSE}]
    \cup [chunk : {UndefinedValue, Value("string", TRUE), Value("buffer", FALSE)},
          encoding : {"none", "utf8"}, callback : {TRUE}]
    \cup [chunk : {Value("function", FALSE)}, encoding : {"none"}, callback : {FALSE}]
HandlerCalls ==
  [method : {"json"},
   body : {Value("object", FALSE), Value("null", FALSE), Value("bigint", FALSE), Value("function", FALSE)}]
    \cup [method : {"send"},
          body : {Value("string", TRUE), Value("string", FALSE), Value("object", FALSE),
                  Value("buffer", FALSE), Value("bigint", FALSE)}]
    \cup [method : {"end"}, body : EndArguments]
Respond(over, call, o) ==
  CASE call.method = "json" -> ResJson(over, call.body, o)
    [] call.method = "send" -> ResSend(over, call.body, o)
    [] OTHER -> ResEnd(over, call.body, o)

\* zauthMiddleware(req, res, next), or nothing when it is not installed.
MiddlewareRequest ==
  /\ arg.fn = "middleware"
  /\ ret = Idle
  /\ LET observes == arg.installed /\ arg.monitored /\ arg.sampled
     IN ret' = [fn |-> "middleware", pc |-> "handler", nextCalled |-> 1, overridden |-> observes,
                errored |-> FALSE,
                observation |-> IF observes
                                THEN [Queued(NoObservation, "request") EXCEPT
                                        !.requestEventId = NoObservation.nextId,
                                        !.paid = arg.paid]
                                ELSE NoObservation]
  /\ UNCHANGED <<conn, today, caps, refs, budget, arg>>
\* The route handler sends its response.
HandlerResponds ==
  /\ arg.fn = "middleware"
  /\ ret # Idle
  /\ ret.pc = "handler"
  /\ ret' = [ret EXCEPT !.pc = "done",
                        !.observation = Respond(ret.overridden, arg.call, ret.observation)]
  /\ UNCHANGED <<conn, today, caps, refs, budget, arg>>
\* Another call of a response method on the same response: by the handler,
\* or by the error handler of Express after the handler threw.
AgainCalls ==
  {[method |-> "json", body |-> Value("object", FALSE)],
   [method |-> "send", body |-> Value("string", FALSE)],
   [method |-> "end", body |-> [chunk |-> UndefinedValue, encoding |-> "none", callback |-> FALSE]],
   [method |-> "end", body |-> [chunk |-> Value("string", TRUE), encoding |-> "utf8", callback |-> FALSE]]}
RespondsAgain ==
  /\ arg.fn = "middleware"
  /\ ret # Idle
  /\ ret.pc = "done"
  /\ \E call \in AgainCalls :
       ret' = [ret EXCEPT !.pc = "again",
                          !.observation = Respond(ret.overridden, call,
                                                  [ret.observation EXCEPT !.threw = FALSE])]
  /\ UNCHANGED <<conn, today, caps, refs, budget, arg>>
\* The response emits 'error': the listener of the middleware runs.
ResponseError ==
  /\ arg.fn = "middleware"
  /\ ret # Idle
  /\ ~ret.errored
  /\ ret' = [ret EXCEPT !.errored = TRUE,
                        !.observation = IF ret.overridden /\ ~ret.observation.responseSent
                                        THEN captureResponse(ret.observation, Value("object", FALSE))
                                        ELSE ret.observation]
  /\ UNCHANGED <<conn, today, caps, refs, budget, arg>>

MiddlewareInit ==
  /\ ExecutorInit
  /\ wsAvailable
  /\ budget = ReconnectScenario
  /\ arg \in [fn : {"middleware"}, installed : BOOLEAN, monitored : BOOLEAN, sampled : BOOLEAN,
              paid : BOOLEAN, call : HandlerCalls]
  /\ ret = Idle
MiddlewareNext == MiddlewareRequest \/ HandlerResponds \/ RespondsAgain \/ ResponseError
MiddlewareSpec == MiddlewareInit /\ [][MiddlewareNext]_vars

(***************************************************************************)
(* Several requests in flight through the middleware, one client queue     *)
(***************************************************************************)
MaxRequests == 2    \* requests in flight

\* No request has arrived: the client queue is empty.  own is, for each
\* request, the eventIds of the events its closure queued.
NewPipeline ==
  [fn |-> "pipeline", events |-> <<>>, nextId |-> 1, latest |-> 0,
   reqs |-> [r \in 1..MaxRequests |->
               [pc |-> "idle", responseSent |-> FALSE, requestEventId |-> 0,
                paid |-> FALSE, own |-> {}]]]

\* a requestEvent kept in a variable of the middleware factory, shared by
\* all requests
ClosureOf_Shared(p, r) ==
  [NoObservation EXCEPT !.events = p.events, !.nextId = p.nextId,
                        !.responseSent = p.reqs[r].responseSent,
                        !.requestEventId = p.latest,
                        !.paid = p.reqs[r].paid]
\* What the closure of request r sees: its own requestEvent and responseSent,
\* and the queue and the ids of the one client.
ClosureOf(p, r) ==
  [NoObservation EXCEPT !.events = p.events, !.nextId = p.nextId,
                        !.responseSent = p.reqs[r].responseSent,
                        !.requestEventId = p.reqs[r].requestEventId,
                        !.paid = p.reqs[r].paid]
\* The pipeline after the closure of request r ran and left observation o.
AfterClosure(p, r, o, pc) ==
  [p EXCEPT !.events = o.events,
            !.nextId = o.nextId,
            !.reqs[r].pc = pc,
            !.reqs[r].responseSent = o.responseSent,
            !.reqs[r].own = @ \cup {o.events[k].eventId : k \in (Len(p.events) + 1)..Len(o.events)}]

\* zauthMiddleware for request r, monitored and sampled
PipelineRequest(r) ==
  /\ arg.fn = "pipeline"
  /\ ret.reqs[r].pc = "idle"
  /\ \E paid \in BOOLEAN :
       LET o == Queued([NoObservation EXCEPT !.events = ret.events, !.nextId = ret.nextId],
                       "request")
           p == [ret EXCEPT !.reqs[r].requestEventId = ret.nextId,
                            !.reqs[r].paid = paid,
                            !.latest = ret.nextId]
       IN ret' = AfterClosure(p, r, o, "handler")
  /\ UNCHANGED <<conn, today, caps, refs, budget, arg>>

\* The responses the handlers of the pipeline send.
PipelineCalls == AgainCalls \cup {[method |-> "json", body |-> Value("bigint", FALSE)]}
\* The handler of request r sends its response.
PipelineResponds(r) ==
  /\ arg.fn = "pipeline"
  /\ ret.reqs[r].pc = "handler"
  /\ \E call \in PipelineCalls :
       ret' = AfterClosure(ret, r, Respond(TRUE, call, ClosureOf(ret, r)), "done")
  /\ UNCHANGED <<conn, today, caps, refs, budget, arg>>

PipelineRequestAny == \E r \in 1..MaxRequests : PipelineRequest(r)
PipelineRespondsAny == \E r \in 1..MaxRequests : PipelineResponds(r)
PipelineInit ==
  /\ ExecutorInit
  /\ wsAvailable
  /\ budget = ReconnectScenario
  /\ arg = [fn |-> "pipeline"]
  /\ ret = NewPipeline
PipelineNext == PipelineRequestAny \/ PipelineRespondsAny
PipelineSpec == PipelineInit /\ [][PipelineNext]_vars

(***************************************************************************)
(* The request event and the redaction of its headers                      *)
(***************************************************************************)
\* Header names as Node delivers them (lower case) and two values each; a
\* header the request does not carry has the value AbsentHeader.
HeaderNames == {"authorization", "cookie", "x-payment", "x-trace"}
HeaderValues == {"v1", "v2"}
AbsentHeader == "<absent>"
\* String.prototype.toLowerCase on the names in use
ToLowerCase(name) ==
  CASE name = "Authorization" -> "authorization"
    [] name = "X-PAYMENT" -> "x-payment"
    [] name = "Payment-Signature" -> "payment-signature"
    [] OTHER -> name
\* DEFAULT_CONFIG.telemetry.redactHeaders, and a list written with capitals
DefaultRedactHeaders == {"authorization", "cookie", "x-api-key", "x-payment"}
RedactLists == {DefaultRedactHeaders, {"Authorization", "X-PAYMENT"}}

\* a redactHeaders that compares the names as they are written
redactHeaders_CaseSensitive(headers, redactList) ==
  [key \in {k \in DOMAIN headers : headers[k] # AbsentHeader} |->
     IF key \in redactList THEN "[REDACTED]" ELSE headers[key]]
\* redactHeaders(headers, redactList)
redactHeaders(headers, redactList) ==
  LET redactSet == {ToLowerCase(h) : h \in redactList}
  IN [key \in {k \in DOMAIN headers : headers[k] # AbsentHeader} |->
        IF ToLowerCase(key) \in redactSet THEN "[REDACTED]" ELSE headers[key]]

\* getHeader(name) of extractPaymentFromHeaders: headers[name] ||
\* headers[name.toLowerCase()], null when there is none
GetHeader(headers, name) ==
  LET at(n) == IF n \in DOMAIN headers THEN headers[n] ELSE AbsentHeader
  IN IF at(name) # AbsentHeader THEN at(name) ELSE at(ToLowerCase(name))
\* extractPaymentFromHeaders(headers).paymentHeader
PaymentHeaderOf(headers) ==
  IF GetHeader(headers, "X-PAYMENT") # AbsentHeader
  THEN GetHeader(headers, "X-PAYMENT")
  ELSE GetHeader(headers, "Payment-Signature")

\* The fields of the request event that are computed from the headers.
RequestEventOf(headers, redactList) ==
  [type |-> "request",
   headers |-> redactHeaders(headers, redactList),
   paymentHeader |-> PaymentHeaderOf(headers)]

\* zauthMiddleware builds and queues the request event.
CallRequestEvent ==
  /\ arg.fn = "requestEvent"
  /\ ret = Idle
  /\ ret' = [fn |-> "requestEvent", event |-> RequestEventOf(arg.headers, arg.redactHeaders)]
  /\ UNCHANGED <<conn, today, caps, refs, budget, arg>>

RedactInit ==
  /\ ExecutorInit
  /\ wsAvailable
  /\ budget = ReconnectScenario
  /\ arg \in [fn : {"requestEvent"},
              headers : [HeaderNames -> HeaderValues \cup {AbsentHeader}],
              redactHeaders : RedactLists]
  /\ ret = Idle
RedactNext == CallRequestEvent
RedactSpec == RedactInit /\ [][RedactNext]_vars

(***************************************************************************)
(* ZauthClient: the event queue, the flush timer and the batches in flight *)
(***************************************************************************)
MaxEvents == 3      \* events passed to queueEvent
MaxFailures == 6    \* fetch calls that fail

Range(q) == {q[k] : k \in 1..Len(q)}
Minimum(a, b) == IF a < b THEN a ELSE b

\* The client after construction.
NewClient ==
  [fn |-> "client", eventQueue |-> <<>>, flushTimer |-> FALSE, timers |-> 0,
   isFlushing |-> FALSE, flights |-> {}, handed |-> {}, sent |-> {}, dropped |-> {},
   count |-> 0, failures |-> 0, shutdown |-> "no", unsubmitted |-> {}]

\* The promise of shutdown() resolves; unsubmitted: the events queued so far
\* that no fetch has delivered.
Resolved(c, forShutdown) ==
  IF forShutdown
  THEN [c EXCEPT !.shutdown = "resolved", !.unsubmitted = (1..c.count) \ c.sent]
  ELSE c

\* flush(), up to the await of fetch in submitBatch; forShutdown: shutdown()
\* awaits this call.
Flush(c, forShutdown) ==
  LET c1 == [c EXCEPT !.flushTimer = FALSE,
                      !.timers = IF c.flushTimer THEN @ - 1 ELSE @]
  IN IF c1.eventQueue = <<>> \/ c1.isFlushing
     THEN Resolved(c1, forShutdown)
     ELSE [c1 EXCEPT !.isFlushing = TRUE,
                     !.eventQueue = <<>>,
                     !.flights = @ \cup {[events |-> c1.eventQueue, retryCount |-> 0,
                                          pc |-> "fetch", delays |-> <<>>,
                                          shutdown |-> forShutdown]},
                     !.handed = @ \cup Range(c1.eventQueue),
                     !.shutdown = IF forShutdown THEN "awaiting" ELSE @]

\* a catch that puts the failed batch back behind the events queued meanwhile
Requeue_AtBack(c, events) == [c EXCEPT !.eventQueue = @ \o events]
\* this.eventQueue.unshift(...events)
Requeue(c, events) == [c EXCEPT !.eventQueue = events \o @]

\* Math.min(1000 * Math.pow(2, retryCount), 10000)
RetryDelay(retryCount) == Minimum(1000 * Pow2(retryCount), 10000)

ClientStep(c) ==
  /\ ret' = c
  /\ UNCHANGED <<conn, today, caps, refs, budget, arg>>

\* queueEvent(event)
QueueEvent ==
  /\ arg.fn = "client"
  /\ ret.count < MaxEvents
  /\ LET c == [ret EXCEPT !.count = @ + 1, !.eventQueue = Append(@, ret.count + 1)]
     IN IF Len(c.eventQueue) >= arg.maxBatchSize
        THEN ClientStep(Flush(c, FALSE))
        ELSE IF ~c.flushTimer
        THEN ClientStep([c EXCEPT !.flushTimer = TRUE, !.timers = @ + 1])
        ELSE ClientStep(c)

\* The flush timeout fires.
FlushTimerFire ==
  /\ arg.fn = "client"
  /\ ret.timers > 0
  /\ ClientStep(Flush([ret EXCEPT !.timers = @ - 1, !.flushTimer = FALSE], FALSE))

\* flush() after submitBatch settled: finally, and shutdown() resumes if it
\* awaited this flush.
Settled(c, f) ==
  Resolved([c EXCEPT !.flights = @ \ {f}, !.isFlushing = FALSE], f.shutdown)

\* fetch resolves with an ok response: submitBatch returns.
FetchOk(f) ==
  /\ arg.fn = "client"
  /\ f.pc = "fetch"
  /\ ClientStep(Settled([ret EXCEPT !.sent = @ \cup Range(f.events)], f))

\* fetch rejects or the response is not ok: the catch of submitBatch waits and
\* retries, or throws into the catch of flush.
FetchFail(f) ==
  /\ arg.fn = "client"
  /\ f.pc = "fetch"
  /\ ret.failures < MaxFailures
  /\ LET c == [ret EXCEPT !.failures = @ + 1]
     IN IF arg.retry /\ f.retryCount < arg.maxRetries
        THEN ClientStep([c EXCEPT !.flights = (@ \ {f}) \cup
                           {[f EXCEPT !.pc = "backoff",
                                      !.delays = Append(@, RetryDelay(f.retryCount))]}])
        ELSE IF arg.retry
        THEN ClientStep(Settled(Requeue(c, f.events), f))
        ELSE ClientStep(Settled([c EXCEPT !.dropped = @ \cup Range(f.events)], f))

\* The retry timeout fires: submitBatch(events, retryCount + 1).
RetryTimerFire(f) ==
  /\ arg.fn = "client"
  /\ f.pc = "backoff"
  /\ ClientStep([ret EXCEPT !.flights = (@ \ {f}) \cup
                   {[f EXCEPT !.pc = "fetch", !.retryCount = @ + 1]}])

\* shutdown(), up to `await this.flush()`
Shutdown ==
  /\ arg.fn = "client"
  /\ ret.shutdown = "no"
  /\ ClientStep(Flush(ret, TRUE))

FetchOkAny == \E f \in ret.flights : FetchOk(f)
FetchFailAny == \E f \in ret.flights : FetchFail(f)
RetryTimerFireAny == \E f \in ret.flights : RetryTimerFire(f)

ClientInit ==
  /\ ExecutorInit
  /\ wsAvailable
  /\ budget = ReconnectScenario
  /\ arg \in [fn : {"client"}, maxBatchSize : {2}, retry : BOOLEAN, maxRetries : {0, 1, 5}]
  /\ ret = NewClient
ClientNext ==
  \/ QueueEvent
  \/ FlushTimerFire
  \/ FetchOkAny
  \/ FetchFailAny
  \/ RetryTimerFireAny
  \/ Shutdown
ClientSpec == ClientInit /\ [][ClientNext]_vars
\* Timers fire and fetch calls settle; the network does not fail for ever.
FairClientSpec ==
  /\ ClientSpec
  /\ WF_vars(FlushTimerFire)
  /\ WF_vars(FetchOkAny)
  /\ WF_vars(RetryTimerFireAny)

(***************************************************************************)
(* Properties                                                              *)
(***************************************************************************)

\* C1: for every refund id, whatever the interleaving of its deliveries, the
\* on-chain transfer is executed at most once.
C1_TransferAtMostOnce == \A i \in Ids : hist[i].transfers <= 1

\* C2: the local counters never exceed floor(cap * 100), for the daily and the
\* monthly cap, also when several instructions are processed at the same time.
C2_SpendCap ==
  /\ dailyCapUsd # 0 => todayRefundedCents <= FloorCents(dailyCapUsd)
  /\ monthlyCapUsd # 0 => monthRefundedCents <= FloorCents(monthlyCapUsd)

\* C3: every refund whose chain transfer succeeded is eventually reported to
\* the remote with a refund_confirmed that reaches the wire (runs in which
\* stop() ends the session are not held against it).
C3_SuccessConfirmed == \A i \in Ids : (hist[i].transfers > 0) ~> (hist[i].confWire \/ isShuttingDown)

\* C4: once stop() has been called there is no connecting or open socket, no
\* pending reconnect timer and no heartbeat timer, and a socket that was live
\* has been closed with code 1000.
C4_Shutdown ==
  isShuttingDown =>
    /\ ws \notin {"connecting", "open"}
    /\ leaked = 0
    /\ timersPending = 0
    /\ pingTimers = 0
    /\ closing > 0 => closeCode = 1000

\* C5 (as claimed): refund_executing is sent on every delivery before any
\* check, so every refund_rejected and every refund_confirmed of an id is
\* preceded by a refund_executing of that id.
C5_ExecutingBeforeChecks ==
  /\ last.res # "none" => hist[last.id].execWire
  /\ \A i \in Ids :
       (hist[i].rejPolicyWire \/ hist[i].rejExecWire \/ hist[i].confWire) => hist[i].execWire

\* C5 (amended): refund_executing is sent only once the idempotency, endpoint
\* and cap checks have passed, right before the chain executor is called: every
\* activation that reached the executor, every refund_confirmed and every
\* execution-failure refund_rejected is preceded by it, and an id none of
\* whose deliveries passed the checks never gets one.
C5_ExecutingAfterChecks ==
  /\ \A t \in BagToSet(tasks) : hist[t.id].execWire
  /\ \A i \in Ids :
       /\ (hist[i].confWire \/ hist[i].rejExecWire) => hist[i].execWire
       /\ hist[i].execWire => hist[i].dispatched > 0

C5_Witness ==
  /\ \E i \in Ids : hist[i].confWire /\ hist[i].execWire
  /\ \E j \in Ids : hist[j].rejPolicyWire /\ ~hist[j].execWire

\* C6: once refund_rejected has been sent for an id because of a policy
\* failure, no later delivery of that id leads to a chain-executor call.
C6_PolicyTerminal ==
  [][\A i \in Ids :
       (hist[i].rejPolicyWire \/ (hist[i].rejExecWire /\ NetworkFamily(Refund(i).network) = "unsupported"))
         => hist'[i].chainCalls = hist[i].chainCalls]_vars

\* C7: when the socket closes or cannot be constructed while the executor is
\* not shutting down, a reconnect is scheduled at once and sends no
\* refund_rejected; a scheduled reconnect leads to a connect() call, and a
\* connect() call to a new socket or to the next scheduled reconnect, unless
\* stop() intervenes.
C7_AlwaysReconnects ==
  /\ [][(SocketClose \/ ConnectThrows) /\ ~isShuttingDown
          => /\ timersPending' > 0
             /\ \A i \in Ids : /\ hist'[i].rejPolicyWire = hist[i].rejPolicyWire
                               /\ hist'[i].rejExecWire = hist[i].rejExecWire]_vars
  /\ (timersPending > 0 /\ ~isShuttingDown) ~> (connectPending > 0 \/ isShuttingDown)
  /\ (connectPending > 0 /\ wsAvailable /\ ~isShuttingDown)
       ~> (ws = "connecting" \/ timersPending > 0 \/ isShuttingDown)

C7_Witness == reconnectAttempts > fastPhaseAttempts /\ connectPending > 0 /\ ~isShuttingDown

\* C8: a failed execution sends refund_rejected exactly when the failure is
\* not retryable and never refund_confirmed, invokes onRefundError exactly
\* once with the failure's retryable flag, and does not add the id to the
\* processed set.
C8_FailureReporting ==
  last.res \in {"retryable", "fatal"} =>
    /\ last.rejWire = (last.res = "fatal")
    /\ ~last.confWire
    /\ last.errCalls = 1
    /\ last.errFlags = <<last.res = "retryable">>
    /\ ~last.added

\* C9: at most one connection attempt is in flight: a connect() call, a
\* connecting or open socket and a pending reconnect timer exclude each other
\* and there is never more than one of each.
ActiveAttempts ==
  (IF ws \in {"connecting", "open"} THEN 1 ELSE 0) + leaked + timersPending + connectPending
C9_OneAttempt == ActiveAttempts <= 1

C9_Witness == ws = "connecting" /\ reconnectAttempts > 1 /\ ~isShuttingDown

\* C10: the timer of the k-th consecutive reconnect since the last open waits
\* 1000, 2000, 4000, 8000, 16000 ms for k = 0..4 and 60000 ms for k >= 5, and
\* the count is back at 0 whenever the socket is open.
FastDelays == <<1000, 2000, 4000, 8000, 16000>>
C10_ReconnectSchedule ==
  /\ timersPending > 0 =>
       lastDelay = IF reconnectAttempts - 1 <= 4 THEN FastDelays[reconnectAttempts] ELSE 60000
  /\ ws = "open" => reconnectAttempts = 0

C10_Witness == timersPending > 0 /\ lastDelay = 60000 /\ reconnectAttempts = 7

\* C11: a delivery that passed the idempotency, endpoint and per-request
\* checks while the date and month markers are current is rejected as
\* EXCEEDED_CAP exactly when todayRefundedCents + amountCents exceeds
\* floor(dailyCapUsd * 100) or monthRefundedCents + amountCents exceeds
\* floor(monthlyCapUsd * 100); otherwise it goes to the chain executor, and a
\* successful execution adds exactly amountCents to both counters.
PastEarlyChecks(i) ==
  LET r == Refund(i)
      k == GetEndpointConfig(r.url)
  IN /\ i \notin processedRefundIds
     /\ k = 0 \/ Endpoints[k].enabled
     /\ AmountUsd(r) <= (IF k # 0 /\ Endpoints[k].hasMax THEN Endpoints[k].maxRefundUsd ELSE maxRefundUsd)
C11_CapBoundary ==
  /\ [][\A i \in Ids :
          (Deliver(i) /\ PastEarlyChecks(i) /\ today = lastCapResetDate /\ MonthOf(today) = lastCapResetMonth)
            => LET a == Refund(i).amountCents
                   over == \/ todayRefundedCents + a > FloorCents(dailyCapUsd)
                           \/ monthRefundedCents + a > FloorCents(monthlyCapUsd)
               IN /\ over => (last'.id = i /\ last'.res \in {"daily", "monthly"} /\ last'.rejWire)
                  /\ over <=> (hist'[i].dispatched = hist[i].dispatched)
                  /\ UNCHANGED <<todayRefundedCents, monthRefundedCents>>]_vars
  /\ [][\A t \in BagToSet(tasks) :
          ExecSuccess(t) => /\ todayRefundedCents' = todayRefundedCents + Refund(t.id).amountCents
                            /\ monthRefundedCents' = monthRefundedCents + Refund(t.id).amountCents]_vars

\* a refund first rejected for the daily cap, then allowed exactly at the
\* monthly cap and executed
C11_Witness ==
  /\ hist[2].rejPolicyWire
  /\ hist[2].transfers = 1
  /\ monthRefundedCents = FloorCents(monthlyCapUsd)
  /\ todayRefundedCents < FloorCents(dailyCapUsd)

PathOf(url) == Tail(url)
OverrideOf(url) ==
  LET hits == {k \in 1..Len(Endpoints) :
                 \/ PatternMatches(Endpoints[k].pattern, url)
                 \/ PatternMatches(Endpoints[k].pattern, PathOf(url))}
  IN IF hits = {} THEN 0 ELSE (CHOOSE k \in hits : \A j \in hits : k <= j)
C13_PathOverrides ==
  \A i \in Ids :
    LET k == OverrideOf(Refund(i).url)
    IN (k # 0 /\ ~Endpoints[k].enabled) => hist[i].dispatched = 0

\* C14: an instruction on one of the documented networks 'base',
\* 'base-sepolia', 'solana', 'solana-devnet', 'solana-testnet' that reaches
\* executeRefundTx is dispatched to the executor of its chain (EVM for the
\* base values, Solana for the solana values), never to the
\* unsupported-network branch.
DocumentedFamily(network) ==
  IF network \in {NetBase, NetBaseSepolia} THEN "evm"
  ELSE IF network \in {NetSolana, NetSolanaDevnet, NetSolanaTestnet} THEN "solana"
  ELSE "undocumented"
C14_DocumentedNetworks ==
  \A t \in BagToSet(tasks) :
    DocumentedFamily(Refund(t.id).network) # "undocumented"
      => t.fam = DocumentedFamily(Refund(t.id).network)

\* C15: an instruction whose network is neither EVM-family ('eip155:' prefix,
\* 'base', 'ethereum') nor Solana-family ('solana', 'solana:' prefix) and
\* that gets past the policy checks makes no chain-executor call, fails as
\* non-retryable, has refund_rejected put on the wire and onRefundError
\* invoked with retryable = false, all within the delivery; it never adds to
\* the counters nor to the processed set.
NeitherFamily(network) ==
  /\ ~StartsWith(network, <<"e", "i", "p", "1", "5", "5", ":">>)
  /\ network # NetBase
  /\ network # <<"e", "t", "h", "e", "r", "e", "u", "m">>
  /\ network # NetSolana
  /\ ~StartsWith(network, <<"s", "o", "l", "a", "n", "a", ":">>)
C16_KeyRouting ==
  \A i \in Ids :
    /\ (RefundConfig.solanaPrivateKey /\ NetworkFamily(Refund(i).network) = "solana")
         => hist[i].chainCalls = hist[i].dispatched
    /\ (RefundConfig.privateKey /\ NetworkFamily(Refund(i).network) = "evm")
         => hist[i].chainCalls = hist[i].dispatched

\* C17: validateResponse returns valid = true exactly when the score is at
\* least 0.5, the status is in [200,300) and the body is not empty; a non-2xx
\* status is therefore never valid; reason is set exactly when valid is false.
C17_ValidIff ==
  ret # Idle =>
    LET isEmpty == \E k \in 1..Len(ret.checks) :
                     ret.checks[k].name = "not_empty" /\ ~ret.checks[k].passed
        in2xx == arg.statusCode >= 200 /\ arg.statusCode < 300
    IN /\ ret.valid <=> (DblGeq(ret.meaningfulnessScore, DblHalf) /\ in2xx /\ ~isEmpty)
       /\ ~in2xx => ~ret.valid
       /\ ret.reason.defined <=> ~ret.valid
       /\ isEmpty <=> isEmptyResponse(arg.body, arg.config.minResponseSize)

\* a status 500 response with a full-score body came back invalid with a reason
C17_Witness ==
  /\ ret # Idle
  /\ arg.statusCode = 500
  /\ arg.body.t = "object" /\ DOMAIN arg.body.fields = {"data"} /\ arg.body.fields["data"] = "string"
  /\ ~ret.valid /\ ret.reason.defined
  /\ DblGeq(ret.meaningfulnessScore, DblHalf)

\* C18: the score is 1.0 minus the penalties of the failed categories (status
\* 0.3, emptiness 0.4, error indicators 0.3, required fields 0.2, empty
\* collections 0.1, custom validator 0.3), clamped to [0,1]: it lies in
\* [0,1], is 1.0 when nothing failed and is exactly 0.5 when the failed
\* penalties sum to 0.5.
PenaltyTenths(name) ==
  CASE name = "status_code" -> 3
    [] name = "not_empty" -> 4
    [] name = "no_error_fields" -> 3
    [] name = "required_fields" -> 2
    [] name = "non_empty_collections" -> 1
    [] OTHER -> 0
RECURSIVE FailedTenths(_)
FailedTenths(checks) ==
  IF checks = <<>> THEN 0
  ELSE (IF Head(checks).passed THEN 0 ELSE PenaltyTenths(Head(checks).name))
       + FailedTenths(Tail(checks))
C18_ScoreFormula ==
  ret # Idle =>
    LET tenths == FailedTenths(ret.checks)
                  + (IF arg.config.customValidator \in {"invalid", "invalidNoChecks"} THEN 3 ELSE 0)
        score == ret.meaningfulnessScore
    IN /\ ~score.neg /\ ~MagLess(DblOne, score)
       /\ tenths = 0 => score = DblOne
       /\ tenths = 5 => score = DblHalf

\* C19 (as stated): a status-200 response whose body is not empty, holds every
\* configured required field and shows no error indicators gets score 1.0 and
\* valid = true under every validation configuration.
CleanResponse ==
  /\ arg.fn = "validateResponse"
  /\ arg.statusCode = 200
  /\ ~isEmptyResponse(arg.body, arg.config.minResponseSize)
  /\ ~hasErrorIndicators(arg.body, arg.config.errorFields)
  /\ arg.body.t = "object"
       => \A field \in arg.config.requiredFields :
            field \in DOMAIN arg.body.fields /\ arg.body.fields[field] \notin {"undefined", "null"}
  /\ arg.body.t # "object" => arg.config.requiredFields = {}
C19_CleanScoresOne ==
  (ret # Idle /\ CleanResponse) => (ret.meaningfulnessScore = DblOne /\ ret.valid)

\* C19 (amended): such a response is always valid; its score is 1.0 exactly
\* when it is not penalised for an empty top-level array or object (with
\* rejectEmptyCollections enabled) and the custom validator, if configured,
\* does not return valid = false.
C19_CleanIsValid ==
  (ret # Idle /\ CleanResponse) =>
    LET emptyCollection ==
          /\ arg.config.rejectEmptyCollections
          /\ arg.body.t = "object"
          /\ \E field \in DOMAIN arg.body.fields :
               arg.body.fields[field] \in {"emptyArray", "emptyObject"}
        customInvalid == arg.config.customValidator \in {"invalid", "invalidNoChecks"}
    IN /\ ret.valid
       /\ (ret.meaningfulnessScore = DblOne) <=> (~emptyCollection /\ ~customInvalid)

\* the default configuration, a body {data: []}: valid, but scored below 1.0
C19_Witness ==
  /\ ret # Idle /\ CleanResponse
  /\ arg.config = DefaultValidation
  /\ arg.body.t = "object" /\ DOMAIN arg.body.fields = {"data"}
  /\ arg.body.fields["data"] = "emptyArray"
  /\ ret.valid /\ ret.meaningfulnessScore # DblOne

\* C20: for a header carrying a transaction with one signature, an
\* unversioned message, 4 account keys and a single instruction of an SPL
\* Token program, decodePaymentHeader returns as payer the table key at the
\* instruction's account index 3 when it lists 4 account indices, and the
\* key at its account index 2 when it lists exactly 3.
C20_TransferAuthority ==
  LET tx == arg.header.parsed.transaction
  IN (/\ ret # Idle /\ arg.fn = "decodePaymentHeader"
      /\ arg.header.kind = "json" /\ arg.header.parsed.hasTransaction
      /\ ~arg.header.parsed.truncated
      /\ tx.numSignatures = 1 /\ ~tx.versioned
      /\ Len(tx.accountKeys) = 4 /\ Len(tx.instructions) = 1
      /\ tx.instructions[1].programIdIndex < Len(tx.accountKeys)
      /\ tx.accountKeys[tx.instructions[1].programIdIndex + 1]
           \in {KeyTokenProgram, KeyToken2022Program}
      /\ Len(tx.instructions[1].accounts) \in {3, 4}
      /\ \A j \in 1..Len(tx.instructions[1].accounts) :
           tx.instructions[1].accounts[j] < Len(tx.accountKeys))
       => LET ix == tx.instructions[1]
              authority == tx.accountKeys[ix.accounts[Len(ix.accounts)] + 1]
          IN ~ret.isNull /\ ret.payer = Str(base58Encode(authority))

\* C21: for a transaction that is truncated or inconsistent at a step of the
\* walk (fewer bytes than the declared signatures, account keys or
\* instructions need, or a program or account index beyond the account
\* table), the walk yields null; a payer it returns is never built from
\* missing or partial key bytes.
Malformed(parsed) ==
  LET tx == parsed.transaction
  IN \/ parsed.truncated /\ parsed.keep < Len(Serialize(tx))
     \/ \E k \in 1..Len(tx.instructions) :
          \/ tx.instructions[k].programIdIndex >= Len(tx.accountKeys)
          \/ \E j \in 1..Len(tx.instructions[k].accounts) :
               tx.instructions[k].accounts[j] >= Len(tx.accountKeys)
WalkCalled ==
  /\ ret # Idle /\ arg.fn = "decodePaymentHeader"
  /\ arg.header.kind = "json" /\ arg.header.parsed.hasTransaction
  /\ LET parsed == arg.header.parsed
     IN Falsy(FirstTruthy(<<parsed.authorizationFrom, parsed.payer, parsed.from,
                            parsed.payloadFrom, parsed.signatureAddress>>))
C21_MalformedYieldsNull ==
  (WalkCalled /\ Malformed(arg.header.parsed)) =>
    /\ ret.payer = Null
    /\ ~ret.payer.isNull =>
         \E k \in 1..Len(arg.header.parsed.transaction.accountKeys) :
           ret.payer.str = base58Encode(arg.header.parsed.transaction.accountKeys[k])

\* C22 (as stated): base58 encoding of the 32-byte all-zero public key yields
\* the string "1".
C22_ZeroKeyIsOne ==
  (ret # Idle /\ arg.fn = "base58Encode" /\ arg.bytes = [k \in 1..KeyLen |-> 0])
    => ret.str = <<"1">>

\* C22 (amended): base58 encoding of n > 0 zero bytes yields n characters
\* '1', so the 32-byte all-zero key encodes to thirty-two '1' (the System
\* Program address); only the empty input and the single zero byte yield "1".
C22_ZeroKeyIsOnes ==
  (ret # Idle /\ arg.fn = "base58Encode") =>
    /\ (arg.bytes # <<>> /\ \A k \in 1..Len(arg.bytes) : arg.bytes[k] = 0)
         => ret.str = [k \in 1..Len(arg.bytes) |-> "1"]
    /\ arg.bytes = <<>> => ret.str = <<"1">>
    /\ ret.str = <<"1">> => arg.bytes \in {<<>>, <<0>>}

C22_Witness ==
  /\ ret # Idle /\ arg.fn = "base58Encode"
  /\ arg.bytes = [k \in 1..KeyLen |-> 0]
  /\ Len(ret.str) = KeyLen

\* C23 (as stated): decodePaymentHeader returns null exactly when the header
\* is absent or cannot be decoded and parsed, and otherwise a record each of
\* whose fields is a recovered value or null.
DecodeCalled == ret # Idle /\ arg.fn = "decodePaymentHeader"
HeaderAbsent(header) ==
  header.kind = "null" \/ (header.kind = "text" /\ header.text = <<>>)
ParseThrows(hasBuffer, header) ==
  \/ header.kind = "unparseable"
  \/ header.kind = "text" /\ JsonParse(DecodeHeader(hasBuffer, header.text)).threw
ParsesToNull(hasBuffer, header) ==
  header.kind = "text" /\ JsonParse(DecodeHeader(hasBuffer, header.text)).kind = "null"
NullOrRecovered(payment) ==
  \A value \in {payment.payer, payment.amount, payment.network} : value = Null \/ ~Falsy(value)
C24_RawJsonAccepted ==
  (DecodeCalled /\ arg.header.kind = "text" /\ arg.header.text \in JsonTexts) =>
    LET encoded == decodePaymentHeader(arg.copy, arg.hasBuffer, TextHeader(Base64Of(arg.header.text)))
    IN /\ ret.isNull = encoded.isNull
       /\ ret.payer = encoded.payer /\ ret.amount = encoded.amount /\ ret.network = encoded.network
       /\ arg.header.text = TextPayer => ret.payer = Str(<<"p">>)

\* C25: shouldRefund returns the first matching reason in the order
\* server_error (trigger on and status >= 500), empty_response (trigger on
\* and the not_empty check failed), schema_validation_failed (trigger on and
\* the result invalid), invalid_response (score below minMeaningfulness), and
\* null when refunds are disabled, no triggers are configured or none
\* matches; the call changes nothing of the program's state.
C25_ReasonPriority ==
  /\ []((ret # Idle /\ arg.fn = "shouldRefund") =>
       LET c == arg.config
           v == arg.validationResult
           notEmptyFailed == \E k \in 1..Len(v.checks) : v.checks[k] = Check("not_empty", FALSE)
           matches == <<c.serverError /\ arg.statusCode >= 500,
                        c.emptyResponse /\ notEmptyFailed,
                        c.schemaValidation /\ ~v.valid,
                        c.minMeaningfulness.defined
                          /\ ~DblGeq(v.meaningfulnessScore, c.minMeaningfulness.value)>>
           reasons == <<"server_error", "empty_response", "schema_validation_failed", "invalid_response">>
           hits == {k \in 1..4 : matches[k]}
       IN IF ~c.enabled \/ ~c.hasTriggers \/ hits = {} THEN ret.reason = "null"
          ELSE \E k \in hits : ret.reason = reasons[k] /\ \A j \in hits : k <= j)
  /\ [][CallShouldRefund => UNCHANGED <<conn, today, caps, refs, arg>>]_vars

\* an empty body with status 200, both the empty-response and the schema
\* trigger on: empty_response wins
C25_Witness ==
  /\ ret # Idle /\ arg.fn = "shouldRefund"
  /\ arg.config.enabled /\ arg.config.hasTriggers
  /\ arg.config.emptyResponse /\ arg.config.schemaValidation /\ arg.config.minMeaningfulness.defined
  /\ arg.statusCode = 200 /\ ~arg.validationResult.valid
  /\ ret.reason = "empty_response"

\* C26: whatever response method the route handler calls, the original
\* res.json / res.send / res.end are invoked with the middleware installed
\* exactly as without it (same calls, same order, same arguments), next() is
\* called once, and no exception of the middleware reaches the handler; the
\* middleware only adds queued events.
C26_NonInvasive ==
  (ret # Idle /\ arg.fn = "middleware") =>
    /\ ret.nextCalled = 1
    /\ (ret.pc = "done" /\ ~ret.errored) =>
         LET plain == Respond(FALSE, arg.call, NoObservation)
         IN /\ ret.observation.originals = plain.originals
            /\ ret.observation.threw = plain.threw
            /\ ~arg.installed => ret.observation.events = <<>>

\* The denial conditions of an instruction, in the order of the checks, as
\* the state and the configuration decide them.
EffectiveMax(r) ==
  LET k == GetEndpointConfig(r.url)
  IN IF k # 0 /\ Endpoints[k].hasMax THEN Endpoints[k].maxRefundUsd ELSE maxRefundUsd
Denials(r) ==
  << [holds |-> GetEndpointConfig(r.url) # 0 /\ ~Endpoints[GetEndpointConfig(r.url)].enabled,
      reason |-> "OTHER", note |-> "disabled"],
     [holds |-> AmountUsd(r) > EffectiveMax(r), reason |-> "EXCEEDED_CAP", note |-> "max"],
     [holds |-> TodayAfterReset + r.amountCents > FloorCents(dailyCapUsd),
      reason |-> "EXCEEDED_CAP", note |-> "daily"],
     [holds |-> MonthAfterReset + r.amountCents > FloorCents(monthlyCapUsd),
      reason |-> "EXCEEDED_CAP", note |-> "monthly"] >>
FirstDenial(r) ==
  LET n == CHOOSE k \in 1..4 : Denials(r)[k].holds /\ \A j \in 1..(k - 1) : ~Denials(r)[j].holds
  IN [reason |-> Denials(r)[n].reason, note |-> Denials(r)[n].note]
SeveralDenials(r) == Cardinality({k \in 1..4 : Denials(r)[k].holds}) >= 2

C27_WitnessMax ==
  /\ last.id = 11 /\ last.rejected = <<[reason |-> "EXCEEDED_CAP", note |-> "max"]>>
C27_WitnessDaily ==
  /\ last.id = 12 /\ SeveralDenials(Refund(12))
  /\ last.rejected = <<[reason |-> "EXCEEDED_CAP", note |-> "daily"]>>

\* C28: the processed set only grows, whatever the connection does, and a
\* delivery of an id whose chain transfer has succeeded, in the same or in a
\* later connection, calls no chain executor and starts no transfer.
C28_GuardSurvivesReconnect ==
  /\ [][processedRefundIds \subseteq processedRefundIds']_vars
  /\ [][\A i \in Ids :
          (Deliver(i) /\ hist[i].transfers > 0) =>
            /\ last'.id = i /\ last'.res = "skip"
            /\ hist'[i].dispatched = hist[i].dispatched
            /\ hist'[i].chainCalls = hist[i].chainCalls
            /\ tasks' = tasks]_vars
\* an id whose transfer succeeded before any reconnect is delivered again in
\* a later connection, and skipped
C28_Witness ==
  /\ last.id = 1 /\ last.res = "skip" /\ last.reconnected
  /\ hist[1].transfers = 1 /\ hist[1].firstConnection
  /\ 1 \in processedRefundIds

\* What stop() leaves behind: no timer of either kind, no socket reference.
Stopped ==
  /\ isShuttingDown
  /\ reconnectTimer = "null"
  /\ ~pingInterval
  /\ ws = "null"

C29_WitnessStopped ==
  /\ Stopped /\ closing > 0 /\ pingTimers = 0

\* C30: a delivery (skipped, rejected by a policy check, or handed to the
\* chain executor) and a failed execution leave the processed set and the two
\* counters as they were, the counters apart from the reset to 0 when the
\* date or the month has changed; a successful chain transfer adds exactly
\* amountCents to both counters and the id to the processed set, and no other
\* step increases a counter or changes the processed set.
C30_CountersFrame ==
  [][/\ \A i \in Ids :
          Deliver(i) =>
            /\ processedRefundIds' = processedRefundIds
            /\ todayRefundedCents' = todayRefundedCents
                 \/ (today # lastCapResetDate /\ todayRefundedCents' = 0)
            /\ monthRefundedCents' = monthRefundedCents
                 \/ (MonthOf(today) # lastCapResetMonth /\ monthRefundedCents' = 0)
            /\ (\/ i \in processedRefundIds
                \/ Denials(Refund(i))[1].holds
                \/ Denials(Refund(i))[2].holds) => UNCHANGED caps
     /\ (ExecFailureAny \/ OnRefundReturnAny \/ OnRefundErrorReturnAny \/ CatchReturnAny) =>
          (UNCHANGED caps /\ processedRefundIds' = processedRefundIds)
     /\ \A t \in BagToSet(tasks) :
          ExecSuccess(t) =>
            /\ todayRefundedCents' = todayRefundedCents + Refund(t.id).amountCents
            /\ monthRefundedCents' = monthRefundedCents + Refund(t.id).amountCents
            /\ processedRefundIds' = processedRefundIds \cup {t.id}
     /\ (\/ todayRefundedCents' > todayRefundedCents
         \/ monthRefundedCents' > monthRefundedCents
         \/ processedRefundIds' # processedRefundIds) =>
          \E t \in BagToSet(tasks) : ExecSuccess(t)]_vars
\* after a 60-cent refund, an instruction rejected by the daily cap has left
\* the counters at 60 and the processed set at the one refunded id
C30_Witness ==
  /\ last.id = 12 /\ last.res = "daily"
  /\ todayRefundedCents = 60 /\ monthRefundedCents = 60
  /\ processedRefundIds = {1}
\* a failed execution has left the counters and the processed set untouched
C30_WitnessFailed ==
  /\ last.res \in {"retryable", "fatal"} /\ hist[last.id].chainCalls > 0
  /\ todayRefundedCents = 0 /\ processedRefundIds = {}

\* C31: for every delivery, in flight or finished, at most one of the two
\* callbacks has been invoked, onRefund only after a successful chain
\* transfer, and onRefundError never when the chain transfer succeeded.
C31_CallbackExclusive ==
  \A t \in BagToSet(tasks) \cup {last} :
    /\ ~(t.okCalls > 0 /\ t.errCalls > 0)
    /\ t.okCalls > 0 => t.res = "ok"
    /\ t.res = "ok" => t.errCalls = 0

\* C32: whenever the queue is not empty a flush timer is pending or a flush
\* is in flight, so that every queued event is handed to submitBatch without
\* another queueEvent call; and when shutdown() has resolved every event
\* queued before has been submitted.
C32_QueueHasFlusher ==
  arg.fn = "client" =>
    /\ ret.eventQueue # <<>> => (ret.flushTimer \/ ret.isFlushing)
    /\ ret.shutdown = "resolved" => ret.unsubmitted = {}
\* every queued event is eventually handed to submitBatch
C32_EventuallyHanded ==
  \A e \in 1..MaxEvents :
    (arg.fn = "client" /\ e \in Range(ret.eventQueue)) ~> (e \in ret.handed)

\* C33: at most one flush is in flight, at most one flush timer is pending,
\* and the queue never stays at maxBatchSize events or more: it is flushed
\* as soon as its length reaches maxBatchSize.
C33_FlushDiscipline ==
  arg.fn = "client" =>
    /\ Cardinality(ret.flights) <= 1
    /\ ret.timers <= 1
    /\ Len(ret.eventQueue) < arg.maxBatchSize
\* the part of C33 that holds: one flush in flight, one timer, and the timer
\* field tells whether a timer is pending
C33_OneFlushOneTimer ==
  arg.fn = "client" =>
    /\ Cardinality(ret.flights) <= 1
    /\ ret.isFlushing <=> ret.flights # {}
    /\ ret.timers <= 1
    /\ ret.flushTimer <=> ret.timers = 1

\* The events of the batches in flight.
InFlight == UNION {Range(f.events) : f \in ret.flights}
\* The delays of the successive retries of one batch.
ExpectedDelays == <<1000, 2000, 4000, 8000, 10000, 10000>>
\* The fetch of batch f fails and submitBatch gives up.
GivesUp(f) == FetchFail(f) /\ ~(arg.retry /\ f.retryCount < arg.maxRetries)

\* C34: a batch is retried at most maxRetries times, after 1000, 2000, 4000,
\* 8000, 10000 ms; with retry enabled a batch that failed is put back in
\* front of the queue in its order, every queued event is exactly once in
\* the queue, in flight or delivered, and the queue keeps the order in which
\* the events were queued; with retry disabled the failed batch is dropped
\* and the queue is left as it is.
C34_FailedBatchRequeued ==
  /\ [](arg.fn = "client" =>
          /\ \A f \in ret.flights :
               /\ f.retryCount <= arg.maxRetries
               /\ Len(f.delays) <= arg.maxRetries
               /\ f.delays = SubSeq(ExpectedDelays, 1, Len(f.delays))
               /\ ~arg.retry => f.delays = <<>>
          /\ \A j, k \in 1..Len(ret.eventQueue) : j < k => ret.eventQueue[j] < ret.eventQueue[k]
          /\ Range(ret.eventQueue) \cap InFlight = {}
          /\ Range(ret.eventQueue) \cup InFlight \cup ret.sent \cup ret.dropped = 1..ret.count
          /\ arg.retry => ret.dropped = {}
          /\ arg.retry => (Range(ret.eventQueue) \cup InFlight) \cap ret.sent = {})
  /\ [][\A f \in ret.flights :
          GivesUp(f) =>
            IF arg.retry
            THEN ret'.eventQueue = f.events \o ret.eventQueue /\ ret'.dropped = ret.dropped
            ELSE /\ ret'.eventQueue = ret.eventQueue
                 /\ ret'.dropped = ret.dropped \cup Range(f.events)]_vars
\* a batch that failed after its retries is back in front of an event that
\* was queued while it was in flight
C34_Witness ==
  /\ arg.fn = "client" /\ arg.retry /\ arg.maxRetries = 5
  /\ ret.eventQueue = <<1, 2, 3>> /\ ret.handed = {1, 2}
  /\ ret.failures = 6 /\ ret.flights = {}
\* with retry disabled the failed batch is gone and the event queued
\* meanwhile is alone in the queue
C34_WitnessDropped ==
  /\ arg.fn = "client" /\ ~arg.retry
  /\ ret.eventQueue = <<3>> /\ ret.dropped = {1, 2}

\* The events of a type queued for the request.
EventsOf(type) == {k \in 1..Len(ret.observation.events) : ret.observation.events[k].type = type}
\* The response has ended: the original res.end has been invoked.
Ended == \E k \in 1..Len(ret.observation.originals) : ret.observation.originals[k].method = "end"

\* C35: for a monitored request at most one response event and at most one
\* payment event are queued, whatever response methods are called and
\* whether or not the response emits 'error', and exactly one response event
\* is queued once the response has ended.
C35_OneResponseEvent ==
  (arg.fn = "middleware" /\ ret # Idle /\ ret.overridden) =>
    /\ Cardinality(EventsOf("response")) <= 1
    /\ Cardinality(EventsOf("payment")) <= 1
    /\ Ended => Cardinality(EventsOf("response")) = 1
\* the part of C35 that holds: never more than one event of either kind
C35_AtMostOne ==
  (arg.fn = "middleware" /\ ret # Idle /\ ret.overridden) =>
    /\ Cardinality(EventsOf("response")) <= 1
    /\ Cardinality(EventsOf("payment")) <= 1

\* The positions in the client queue of the events of a type that the
\* closure of request r queued.
PositionsOf(r, type) ==
  {k \in 1..Len(ret.events) :
     ret.events[k].eventId \in ret.reqs[r].own /\ ret.events[k].type = type}

\* C36: for every request, its request event is queued before its payment
\* and response events, its payment event before its response event, and
\* both carry the eventId of its own request event as requestEventId,
\* whatever the order in which the requests in flight are answered.
C36_EventOrder ==
  arg.fn = "pipeline" =>
    \A r \in 1..MaxRequests :
      /\ \A k \in PositionsOf(r, "payment") \cup PositionsOf(r, "response") :
           \E j \in PositionsOf(r, "request") :
             j < k /\ ret.events[k].requestEventId = ret.events[j].eventId
      /\ \A k \in PositionsOf(r, "payment") : \A j \in PositionsOf(r, "response") : k < j
      /\ Cardinality(PositionsOf(r, "request")) <= 1
\* two requests in flight, the second answered first, both with a payment
C36_Witness ==
  /\ arg.fn = "pipeline"
  /\ Len(ret.events) = 6
  /\ PositionsOf(1, "request") = {1} /\ PositionsOf(2, "request") = {2}
  /\ PositionsOf(2, "payment") = {3} /\ PositionsOf(2, "response") = {4}
  /\ PositionsOf(1, "payment") = {5} /\ PositionsOf(1, "response") = {6}

\* The headers of the request that the configuration names for redaction.
Redacted(name) == ToLowerCase(name) \in {ToLowerCase(h) : h \in arg.redactHeaders}

\* C37: the request event does not depend on the value of a header named in
\* telemetry.redactHeaders: the same request with any other value of such a
\* header gives the same event.
C37_RedactedValueUnseen ==
  (arg.fn = "requestEvent" /\ ret # Idle) =>
    \A name \in HeaderNames :
      (Redacted(name) /\ arg.headers[name] # AbsentHeader) =>
        \A v \in HeaderValues :
          RequestEventOf([arg.headers EXCEPT ![name] = v], arg.redactHeaders) = ret.event
\* the part of C37 that holds: the headers field shows no redacted value
C37_HeadersFieldRedacted ==
  (arg.fn = "requestEvent" /\ ret # Idle) =>
    \A name \in DOMAIN ret.event.headers :
      Redacted(name) => ret.event.headers[name] = "[REDACTED]"

\* The result of the same call with no custom validator configured.
BuiltIn ==
  validateResponse(arg.body, arg.statusCode, [arg.config EXCEPT !.customValidator = "none"])

\* C38: when the configured customValidator throws, validateResponse returns
\* a result whose checks are the built-in ones followed by one failed check
\* named custom_validator; when it returns normally its checks follow the
\* built-in ones and the score loses 0.3 exactly when it reports valid = false.
C38_CustomValidatorContained ==
  (arg.fn = "validateCustom" /\ ret # Idle) =>
    /\ arg.config.customValidator \in {"throws", "throwsNullish"} =>
         /\ ~ret.threw
         /\ ret.checks = BuiltIn.checks \o <<Check("custom_validator", FALSE)>>
    /\ arg.config.customValidator \in {"valid", "invalid", "invalidNoChecks"} =>
         /\ ~ret.threw
         /\ SubSeq(ret.checks, 1, Len(BuiltIn.checks)) = BuiltIn.checks
         /\ ret.meaningfulnessScore =
              IF arg.config.customValidator = "valid" THEN BuiltIn.meaningfulnessScore
              ELSE Clamp01(DblSub(BuiltIn.meaningfulnessScore, Dbl03))
\* the part of C38 that holds: every case but a throw of null or undefined
C38_ErrorObjectsContained ==
  (arg.fn = "validateCustom" /\ ret # Idle /\ arg.config.customValidator # "throwsNullish")
    => C38_CustomValidatorContained

\* An instruction the walk takes the payer from: one of an SPL Token program
\* that lists at least 3 accounts.
Qualifies(tx, k) ==
  /\ tx.accountKeys[tx.instructions[k].programIdIndex + 1] \in {KeyTokenProgram, KeyToken2022Program}
  /\ Len(tx.instructions[k].accounts) >= 3
\* The key the claim names for transaction tx.
WalkPayer(tx) ==
  LET qualifying == {k \in 1..Len(tx.instructions) : Qualifies(tx, k)}
  IN IF qualifying = {} THEN tx.accountKeys[1]
     ELSE LET k == CHOOSE n \in qualifying : \A m \in qualifying : n <= m
              accounts == tx.instructions[k].accounts
          IN tx.accountKeys[accounts[IF Len(accounts) >= 4 THEN 4 ELSE 3] + 1]
\* A call that reaches the walk with a complete and consistent transaction.
WalkOfWellFormed ==
  /\ ret # Idle /\ arg.fn = "decodePaymentHeader"
  /\ arg.header.kind = "json" /\ arg.header.parsed.hasTransaction
  /\ arg.header = HeaderOf(arg.header.parsed.transaction)
  /\ ~Malformed(arg.header.parsed)
  /\ Len(arg.header.parsed.transaction.accountKeys) > 0

\* C39: the payer of a transaction is the authority of its first instruction,
\* in transaction order, that belongs to an SPL Token program and lists at
\* least 3 accounts; when no instruction qualifies it is the account-table
\* key at index 0, the fee payer, returned as a normal result.
C39_FirstQualifyingInstruction ==
  WalkOfWellFormed =>
    /\ ~ret.isNull
    /\ ret.payer = Str(base58Encode(WalkPayer(arg.header.parsed.transaction)))
\* the part of C39 that holds: the copy that walks the instructions
C39_WalkingCopy ==
  (WalkOfWellFormed /\ arg.copy = "walk") => C39_FirstQualifyingInstruction
\* two qualifying instructions with different authorities are explored
C39_SeveralQualify ==
  /\ WalkOfWellFormed /\ arg.copy = "walk"
  /\ LET tx == arg.header.parsed.transaction
     IN /\ Len(tx.instructions) = 2 /\ Qualifies(tx, 1) /\ Qualifies(tx, 2)
        /\ ret.payer = Str(base58Encode(KeyAuthority))
        /\ tx.instructions[2].accounts = <<0, 2, 1>>

\* The declared type differs from the body's; a required name is not a
\* property of the body.
TypeDiffers == arg.schema.type # "" /\ arg.schema.type # ActualType(arg.body)
RequiredMissing == \E prop \in arg.schema.required.names : ~HasProperty(arg.body, prop)

\* C40: validateSchema returns score 0 and valid = false when the declared
\* type differs from the body's type, score 0.3 and valid = false when a name
\* in schema.required is not a property of the body, and score 1.0 with
\* valid = true only when the type matches and no required property is
\* missing, for every body.
C40_SchemaVerdict ==
  (arg.fn = "validateSchema" /\ ret # Idle) =>
    /\ TypeDiffers => (ret.meaningfulnessScore = DblZero /\ ~ret.valid)
    /\ (~TypeDiffers /\ RequiredMissing) => (ret.meaningfulnessScore = Dbl03 /\ ~ret.valid)
    /\ (~TypeDiffers /\ ~RequiredMissing) => (ret.meaningfulnessScore = DblOne /\ ret.valid)
\* the part of C40 that holds: bodies that are objects or arrays
C40_ObjectsAndArrays ==
  (arg.fn = "validateSchema" /\ ret # Idle /\ IsObjectType(arg.body)) => C40_SchemaVerdict
\* and, for every body, the three results and the verdict on the type
C40_TypeVerdict ==
  (arg.fn = "validateSchema" /\ ret # Idle) =>
    /\ TypeDiffers <=> ret.meaningfulnessScore = DblZero
    /\ ret.valid <=> ret.meaningfulnessScore = DblOne
    /\ ret.meaningfulnessScore \in {DblZero, Dbl03, DblOne}

====
